---- MODULE Spec2Model ----
(***************************************************************************)
(* repo-docs: clone or update git repositories under <HOME>/.local/repos.  *)
(*                                                                         *)
(* A string is a sequence of one-character strings.  The filesystem        *)
(* capability (exists, readDirectory, makeDirectory) is total; the git     *)
(* subprocess is an external process that may return any CommandOutput,    *)
(* may fail to start, or may never return.                                 *)
(***************************************************************************)
EXTENDS Naturals, Integers, Sequences, FiniteSets, TLC

(* ------------------------------ bounds -------------------------------- *)

\* the largest number of repositories the cache root holds in a modelled run
MaxRepos == 5

\* the largest number of repositories in the runs checked for liveness
MaxLiveRepos == 5

\* the largest number of git invocations of a series of single-URL syncs
MaxGitCalls == 3

\* the largest number of tokens a URL given to the parser is made of
MaxTokens == 5

\* the largest number of entries of a listing given to the discovery
MaxEntries == 3

(* ----------------------------- strings -------------------------------- *)

None == [tag |-> "None"]

Some(v) == [tag |-> "Some", value |-> v]

SetMax(S) == CHOOSE m \in S : \A x \in S : x <= m

SetMin(S) == CHOOSE m \in S : \A x \in S : m <= x

\* the element of a one-element set; The({ e(x) : x \in {v} }) is e applied
\* to the value of v, as a call in the source evaluates its argument once
The(S) == CHOOSE x \in S : TRUE

Slice(s, from, to) == IF from > to THEN << >> ELSE SubSeq(s, from, to)

\* String.prototype.endsWith
EndsWith(s, suf) ==
    /\ Len(s) >= Len(suf)
    /\ Slice(s, Len(s) - Len(suf) + 1, Len(s)) = suf

\* String.prototype.startsWith at a position (1-based)
MatchAt(s, sub, i) ==
    /\ i + Len(sub) - 1 <= Len(s)
    /\ Slice(s, i, i + Len(sub) - 1) = sub

\* String.prototype.includes
Includes(s, sub) == \E i \in 1..(Len(s) + 1) : MatchAt(s, sub, i)

\* String.prototype.indexOf for a single character, 0 when absent (1-based)
IndexOf(s, c) ==
    IF \E i \in 1..Len(s) : s[i] = c
    THEN SetMin({i \in 1..Len(s) : s[i] = c})
    ELSE 0

\* String.prototype.lastIndexOf for a single character, 0 when absent
LastIndexOf(s, c) ==
    IF \E i \in 1..Len(s) : s[i] = c
    THEN SetMax({i \in 1..Len(s) : s[i] = c})
    ELSE 0

\* String.prototype.split on a single character
RECURSIVE Split(_, _)
SplitAt(s, c, k) ==
    IF k = 0 THEN << s >>
    ELSE << Slice(s, 1, k - 1) >> \o Split(Slice(s, k + 1, Len(s)), c)

Split(s, c) == The({ SplitAt(t, c, IndexOf(t, c)) : t \in {s} })

\* Array.prototype.join
RECURSIVE JoinWith(_, _)
JoinWith(parts, sep) ==
    IF parts = << >> THEN << >>
    ELSE IF Len(parts) = 1 THEN parts[1]
    ELSE parts[1] \o sep \o JoinWith(Tail(parts), sep)

NonEmpty(parts) == SelectSeq(parts, LAMBDA p : Len(p) > 0)

WhiteSpace == {" ", "\n", "\t"}

\* String.prototype.trim
Trim(s) ==
    IF \A i \in 1..Len(s) : s[i] \in WhiteSpace
    THEN << >>
    ELSE Slice(s, SetMin({i \in 1..Len(s) : s[i] \notin WhiteSpace}),
                  SetMax({i \in 1..Len(s) : s[i] \notin WhiteSpace}))

DigitChars == << "0", "1", "2", "3", "4", "5", "6", "7", "8", "9" >>

\* number to decimal text, as a template literal prints it
RECURSIVE NumStr(_)
NumStr(n) ==
    IF n < 10 THEN << DigitChars[n + 1] >>
    ELSE NumStr(n \div 10) \o << DigitChars[(n % 10) + 1] >>

(* ------------------------------ paths --------------------------------- *)

Slash == << "/" >>

Dot == << "." >>

DotDot == << ".", "." >>

DotGit == << ".", "g", "i", "t" >>

IsAbsolute(p) == Len(p) > 0 /\ p[1] = "/"

\* resolution of "." and ".." segments, as posix normalizeString does
RECURSIVE NormalizeSegs(_, _, _)
NormalizeSegs(segs, abs, acc) ==
    IF segs = << >> THEN acc
    ELSE IF Head(segs) = << >> \/ Head(segs) = Dot
    THEN NormalizeSegs(Tail(segs), abs, acc)
    ELSE IF Head(segs) # DotDot
    THEN NormalizeSegs(Tail(segs), abs, Append(acc, Head(segs)))
    ELSE IF Len(acc) > 0 /\ acc[Len(acc)] # DotDot
    THEN NormalizeSegs(Tail(segs), abs, Slice(acc, 1, Len(acc) - 1))
    ELSE IF abs
    THEN NormalizeSegs(Tail(segs), abs, acc)
    ELSE NormalizeSegs(Tail(segs), abs, Append(acc, DotDot))

WithTrailing(body, trailing) ==
    IF Len(body) > 0 /\ trailing THEN body \o Slash ELSE body

NormalizeBody(abs, trailing, body) ==
    (IF abs THEN Slash ELSE << >>)
        \o WithTrailing(IF Len(body) = 0 /\ ~abs THEN Dot ELSE body, trailing)

\* path.normalize (posix)
Normalize(p) ==
    IF Len(p) = 0 THEN Dot
    ELSE The({ NormalizeBody(IsAbsolute(p), p[Len(p)] = "/", JoinWith(kept, Slash)) :
                kept \in { NormalizeSegs(segs, IsAbsolute(p), << >>) :
                            segs \in {Split(p, "/")} } })

PathJoinParts(parts) ==
    IF parts = << >> THEN Dot
    ELSE The({ Normalize(joined) : joined \in {JoinWith(parts, Slash)} })

\* path.join (posix): the non-empty arguments joined by "/" and normalised
PathJoin(parts) == The({ PathJoinParts(given) : given \in {NonEmpty(parts)} })

\* position of the last character of p, from its second on, that is no "/"
LastNonSlash(p, from) ==
    IF \A i \in from..Len(p) : p[i] = "/" THEN 0
    ELSE SetMax({i \in from..Len(p) : p[i] # "/"})

\* position of the last "/" of p in from..(before - 1), 0 when there is none
LastSlashBefore(p, from, before) ==
    IF \A i \in from..(before - 1) : p[i] # "/" THEN 0
    ELSE SetMax({i \in from..(before - 1) : p[i] = "/"})

DirnameEnd(p, end) ==
    IF end = 0 THEN (IF IsAbsolute(p) THEN Slash ELSE Dot)
    ELSE IF IsAbsolute(p) /\ end = 2 THEN << "/", "/" >>
    ELSE Slice(p, 1, end - 1)

\* path.dirname (posix)
Dirname(p) ==
    IF Len(p) = 0 THEN Dot
    ELSE The({ DirnameEnd(p, LastSlashBefore(p, 2, end)) :
                end \in {LastNonSlash(p, 2)} })

BasenameEnd(p, end) ==
    IF end = 0 THEN << >>
    ELSE Slice(p, LastSlashBefore(p, 1, end) + 1, end)

\* path.basename (posix)
Basename(p) == The({ BasenameEnd(p, end) : end \in {LastNonSlash(p, 1)} })

\* length of the longest common prefix of two segment lists
CommonPrefix(a, b) ==
    SetMax({k \in 0..Len(a) : k <= Len(b) /\ \A i \in 1..k : a[i] = b[i]})

RelativeFrom(f, t, k) ==
    JoinWith([i \in 1..(Len(f) - k) |-> DotDot] \o Slice(t, k + 1, Len(t)), Slash)

RelativeSegs(f, t) == The({ RelativeFrom(f, t, k) : k \in {CommonPrefix(f, t)} })

PathSegs(p) ==
    The({ NonEmpty(segs) : segs \in { Split(q, "/") : q \in {Normalize(p)} } })

\* path.relative (posix) of two absolute paths
Relative(from, to) ==
    The({ RelativeSegs(f, t) : f \in {PathSegs(from)}, t \in {PathSegs(to)} })

(* -------------------------- URL (new URL(raw)) ------------------------ *)

Letters ==
    { "a", "b", "c", "d", "e", "f", "g", "h", "i", "j", "k", "l", "m",
      "n", "o", "p", "q", "r", "s", "t", "u", "v", "w", "x", "y", "z" }

Digits == { "0", "1", "2", "3", "4", "5", "6", "7", "8", "9" }

\* a URL scheme: a letter followed by letters, digits, "+", "-" or "."
ValidScheme(s) ==
    /\ Len(s) > 0
    /\ s[1] \in Letters
    /\ \A i \in 1..Len(s) : s[i] \in Letters \cup Digits \cup {"+", "-", "."}

SpecialSchemes == { << "h", "t", "t", "p" >>, << "h", "t", "t", "p", "s" >>, << "f", "t", "p" >>, << "w", "s" >>, << "w", "s", "s" >> }

\* the text after the last "@" of an authority
AfterUserInfo(auth) == Slice(auth, LastIndexOf(auth, "@") + 1, Len(auth))

\* host[:port] with its first ":" at c (0 when there is none): a port is
\* digits only and needs a host
ValidHostPortAt(hp, c, needHost) ==
    IF c = 0 THEN needHost => Len(hp) > 0
    ELSE /\ c > 1
         /\ Len(hp) - c <= 4
         /\ \A i \in (c + 1)..Len(hp) : hp[i] \in Digits

\* the authority of a URL is acceptable; a host is needed when the scheme is
\* special and when userinfo or a port is given
ValidAuthority(auth, special) ==
    The({ ValidHostPortAt(hp, IndexOf(hp, ":"), special \/ IndexOf(auth, "@") # 0) :
            hp \in {AfterUserInfo(auth)} })

\* removal of "." and ".." segments from a URL path; empty segments stay
RECURSIVE UrlPathSegs(_, _)
UrlPathSegs(segs, acc) ==
    IF segs = << >> THEN acc
    ELSE IF Head(segs) = DotDot
    THEN UrlPathSegs(Tail(segs),
            Slice(acc, 1, Len(acc) - 1)
                \o (IF Len(segs) = 1 THEN << << >> >> ELSE << >>))
    ELSE IF Head(segs) = Dot
    THEN UrlPathSegs(Tail(segs),
            acc \o (IF Len(segs) = 1 THEN << << >> >> ELSE << >>))
    ELSE UrlPathSegs(Tail(segs), Append(acc, Head(segs)))

\* the pathname of a hierarchical URL whose path text is p ("" or "/...")
UrlPath(p, special) ==
    IF Len(p) = 0 THEN (IF special THEN Slash ELSE << >>)
    ELSE The({ Slash \o JoinWith(kept, Slash) :
                kept \in { UrlPathSegs(segs, << >>) :
                            segs \in {Split(Tail(p), "/")} } })

\* first position at or after i that does not hold "/"
SkipSlashes(s, i) ==
    IF \A j \in i..Len(s) : s[j] = "/" THEN Len(s) + 1
    ELSE SetMin({j \in i..Len(s) : s[j] # "/"})

\* the authority ends at the first "/" of a, at position s (0: no path)
UrlAuthPath(a, s, special) ==
    IF ValidAuthority(IF s = 0 THEN a ELSE Slice(a, 1, s - 1), special)
    THEN Some(UrlPath(IF s = 0 THEN << >> ELSE Slice(a, s, Len(a)), special))
    ELSE None

UrlHierarchical(a, special) ==
    The({ UrlAuthPath(b, IndexOf(b, "/"), special) : b \in {a} })

\* the URL parser after "<scheme>:" : a special scheme takes an authority
\* after any number of slashes, another scheme only after "//"
UrlAfterScheme(scheme, rest) ==
    IF ~ValidScheme(scheme) THEN None
    ELSE IF scheme \in SpecialSchemes
    THEN UrlHierarchical(Slice(rest, SkipSlashes(rest, 1), Len(rest)), TRUE)
    ELSE IF MatchAt(rest, << "/", "/" >>, 1)
    THEN UrlHierarchical(Slice(rest, 3, Len(rest)), FALSE)
    ELSE IF MatchAt(rest, Slash, 1)
    THEN Some(UrlPath(rest, FALSE))
    ELSE Some(rest)

\* new URL(raw).pathname: Some(pathname), or None when the constructor throws
UrlPathname(raw) ==
    The({ UrlAfterScheme(Slice(raw, 1, c - 1), Slice(raw, c + 1, Len(raw))) :
            c \in {IndexOf(raw, ":")} })

(* ------------------------------ utils.ts ------------------------------ *)

\* a variant of OrElse that yields the empty text in place of the default
OrElse_Empty(opt, default) == IF opt = None THEN << >> ELSE opt.value

OrElse(opt, default) == IF opt = None THEN default ELSE opt.value

\* a variant of stripGitSuffix that removes a second trailing .git too
stripGitSuffix_Twice(value) ==
    IF EndsWith(value, DotGit \o DotGit) THEN Slice(value, 1, Len(value) - 8)
    ELSE IF EndsWith(value, DotGit) THEN Slice(value, 1, Len(value) - 4)
    ELSE value

stripGitSuffix(value) ==
    IF EndsWith(value, DotGit) THEN Slice(value, 1, Len(value) - 4) ELSE value

\* a variant of extractAfterColon that keeps the text before the colon
extractAfterColon_KeepRaw(raw, colonIndex) == raw

\* extractPath, the branch without "://": colonIndex is raw.indexOf(":")
extractAfterColon(raw, colonIndex) ==
    IF colonIndex > 0 /\ ~Includes(Slice(raw, 1, colonIndex - 1), Slash)
    THEN Slice(raw, colonIndex + 1, Len(raw))
    ELSE raw

extractPath(raw) ==
    IF Includes(raw, << ":", "/", "/" >>)
    THEN OrElse(UrlPathname(raw), raw)
    ELSE extractAfterColon(raw, IndexOf(raw, ":"))

\* a variant of partsOf that takes each name for the other
partsOf_Swapped(repo, org) ==
    IF Len(repo) = 0 \/ Len(org) = 0 THEN None
    ELSE Some([org |-> repo, repo |-> org])

\* parseRepoParts: the check of the two names
partsOf(repo, org) ==
    IF Len(repo) = 0 \/ Len(org) = 0 THEN None
    ELSE Some([org |-> org, repo |-> repo])

\* a variant of partsOfSegments that takes the first two segments
partsOfSegments_FirstTwo(segments) ==
    IF Len(segments) < 2 THEN None
    ELSE partsOf(stripGitSuffix(segments[2]), segments[1])

\* a variant of partsOfSegments that takes a single segment for both names
partsOfSegments_SingleAsBoth(segments) ==
    IF Len(segments) < 1 THEN None
    ELSE partsOf(stripGitSuffix(segments[Len(segments)]),
                 segments[SetMax({1, Len(segments) - 1})])

\* parseRepoParts: from the non-empty segments on
partsOfSegments(segments) ==
    IF Len(segments) < 2 THEN None
    ELSE partsOf(stripGitSuffix(segments[Len(segments)]),
                 segments[Len(segments) - 1])

parseRepoParts(raw) ==
    The({ partsOfSegments(NonEmpty(segs)) :
            segs \in { Split(path, "/") : path \in {extractPath(raw)} } })

\* a variant of formatTrimmed that puts stderr first
formatTrimmed_StderrFirst(stdout, stderr) ==
    IF Len(stdout) = 0 /\ Len(stderr) = 0 THEN << >>
    ELSE IF Len(stdout) = 0 THEN stderr
    ELSE IF Len(stderr) = 0 THEN stdout
    ELSE stderr \o << "\n" >> \o stdout

\* formatOutput: from the trimmed streams on
formatTrimmed(stdout, stderr) ==
    IF Len(stdout) = 0 /\ Len(stderr) = 0 THEN << >>
    ELSE IF Len(stdout) = 0 THEN stderr
    ELSE IF Len(stderr) = 0 THEN stdout
    ELSE stdout \o << "\n" >> \o stderr

formatOutput(result) ==
    The({ formatTrimmed(stdout, stderr) :
            stdout \in {Trim(result.stdout)}, stderr \in {Trim(result.stderr)} })

\* an error is modelled by its message text
toErrorMessage(error) == error

(* ---------------------------- environment ----------------------------- *)

VARIABLES
    args,        \* the command line: [url: Option, syncAll: BOOLEAN]
    home,        \* process.env.HOME: None or Some(path)
    fs,          \* the disk: [root: does the cache root exist,
                 \*            entries: paths below it, in listing order]
    pc,          \* position of the main fiber
    target,      \* the RepoTarget of a single-URL sync, None before
    op,          \* the git operation a single-URL sync chose, "" before
    result,      \* the CommandOutput a single-URL sync got, None before
    repos,       \* the repository directories findGitRepos returned
    nextIdx,     \* Effect.forEach: index of the next repository to start
    running,     \* Effect.forEach: indices whose pull is in flight
    results,     \* Effect.forEach: the result array, None where not yet set
    out,         \* lines written with Console.log
    err,         \* lines written with Console.error
    gitCalls,    \* every git invocation started so far: [args, cwd]
    exit,        \* how the command ended: Running, Success or an error
    hangs,       \* indices of repositories whose pull never returns
    fs0,         \* history: the disk as the command found it
    ended,       \* history: how the pull of each repository ended, None before
    outOfOrder,  \* history: a pull ended while an earlier one was in flight
    peer         \* a second run of the same command line, suspended: its
                 \* [pc, target, op, result, out, err, exit]

vars ==
    << args, home, fs, pc, target, op, result, repos, nextIdx, running,
       results, out, err, gitCalls, exit, hangs, fs0, ended, outOfOrder,
       peer >>

\* concurrency of the bulk Effect.forEach
Concurrency == 4

\* the home directory of the modelled runs, and its cache root
Home == << "/", "h" >>

CacheRoot == << "/", "h", "/", ".", "l", "o", "c", "a", "l", "/", "r", "e", "p", "o", "s" >>

\* the texts the program prints
TxtCloning == << "C", "l", "o", "n", "i", "n", "g", " " >>

TxtPulling == << "P", "u", "l", "l", "i", "n", "g", " " >>

TxtOK == << "O", "K", " " >>

TxtFAIL == << "F", "A", "I", "L", " " >>

TxtDone == << "D", "o", "n", "e", ".", " " >>

TxtOkComma == << " ", "o", "k", ",", " " >>

TxtFailed == << " ", "f", "a", "i", "l", "e", "d", "." >>

TxtFailures == << "F", "a", "i", "l", "u", "r", "e", "s", ":" >>

TxtNoOutput == << " ", "(", "n", "o", " ", "o", "u", "t", "p", "u", "t", ")" >>

TxtNoRepos == << "N", "o", " ", "r", "e", "p", "o", "s", " ", "f", "o", "u", "n", "d", " ", "i", "n", " " >>

TxtSyncing == << "S", "y", "n", "c", "i", "n", "g", " " >>

TxtRepos == << " ", "r", "e", "p", "o", "s", ".", ".", "." >>

\* repository i of the modelled disk lives at a/<i> (odd i) or b/<i> (even i)
RepoRel(i) ==
    (IF i % 2 = 1 THEN << "a" >> ELSE << "b" >>) \o Slash \o NumStr(i)

\* the entries of repositories idx[1], idx[2], ... : each directory, then its .git
RECURSIVE RepoEntries(_)
RepoEntries(idx) ==
    IF idx = << >> THEN << >>
    ELSE << RepoRel(Head(idx)), RepoRel(Head(idx)) \o Slash \o DotGit >>
            \o RepoEntries(Tail(idx))

\* a disk with n repositories, listed in ascending or descending order, two
\* organisation directories and one directory a/0 that is no repository
FsTree(n, descending) ==
    [root |-> TRUE,
     entries |-> << << "a" >>, << "b" >>, << "a", "/", "0" >> >>
                    \o RepoEntries([i \in 1..n |-> IF descending THEN n + 1 - i ELSE i])]

NoFs == [root |-> FALSE, entries |-> << >>]

\* the disks of the modelled runs: up to max repositories, the larger ones
\* listed in descending order only
FsChoices(max) ==
    {NoFs, [root |-> TRUE, entries |-> << >>]}
        \cup {FsTree(n, TRUE) : n \in 0..max}
        \cup {FsTree(n, FALSE) : n \in {m \in 0..max : m <= 3}}

\* the URLs a single-URL sync is run with
Urls == { << "h", "t", "t", "p", "s", ":", "/", "/", "h", "/", "a", "/", "1" >>, << "g", "@", "h", ":", "b", "/", "2", ".", "g", "i", "t" >>, << "/", "a", "/", "0" >>, << "h", "t", "t", "p", "s", ":", "/", "/", "h", "/", "c", "/", "9" >>, << "x" >> }

\* what a git pull of the bulk sync may return when it returns
PullOutputs ==
    { [exitCode |-> 0, stdout |-> << "u", "\n" >>, stderr |-> << >>],
      [exitCode |-> 1, stdout |-> << >>, stderr |-> << "e", "\n" >>],
      [exitCode |-> 2, stdout |-> << " " >>, stderr |-> << "\n" >>] }

\* what the git invocation of a single-URL sync may return when it returns
GitOutputs ==
    PullOutputs
        \cup { [exitCode |-> 0, stdout |-> << >>, stderr |-> << >>],
               [exitCode |-> 0, stdout |-> << " ", "o", " " >>, stderr |-> << "w" >>],
               [exitCode |-> 128, stdout |-> << "o" >>, stderr |-> << "e" >>] }

\* the messages of the errors with which starting git may fail
StartErrors == { << " ", "m", "\n" >>, << " " >> }

\* the results used where only success or failure matters
LiveOutputs ==
    { [exitCode |-> 0, stdout |-> << >>, stderr |-> << >>],
      [exitCode |-> 1, stdout |-> << >>, stderr |-> << "e" >>] }

LiveErrors == { << "m" >> }

(* ----------------------------- filesystem ----------------------------- *)

InSeq(x, seq) == \E i \in 1..Len(seq) : seq[i] = x

\* the path rel, relative to the cache root, exists
FsExistsRel(disk, rel) ==
    disk.root /\ (rel = << >> \/ InSeq(rel, disk.entries))

\* fs.exists
FsExists(disk, p) ==
    The({ FsExistsRel(disk, rel) : rel \in {Relative(CacheRoot, p)} })

\* the entries of seq that are not among have, in order
RECURSIVE Missing(_, _)
Missing(have, seq) ==
    IF seq = << >> THEN << >>
    ELSE IF InSeq(Head(seq), have)
    THEN Missing(have, Tail(seq))
    ELSE << Head(seq) >> \o Missing(have, Tail(seq))

\* the relative path rel and every directory above it, outermost first
RECURSIVE Ancestors(_)
Ancestors(rel) ==
    IF rel = << >> \/ rel = Dot THEN << >>
    ELSE The({ Append(Ancestors(parent), rel) : parent \in {Dirname(rel)} })

\* the disk after the paths of seq have been created
FsAdd(disk, seq) ==
    [root |-> TRUE, entries |-> disk.entries \o Missing(disk.entries, seq)]

\* fs.makeDirectory(p, { recursive: true })
FsMakeDirectory(disk, p) ==
    The({ FsAdd(disk, Ancestors(rel)) : rel \in {Relative(CacheRoot, p)} })

\* fs.readDirectory(root, { recursive: true }): paths relative to root
FsReadDirectory(disk) == disk.entries

\* what a successful git clone leaves on disk: the directory and its .git
FsClone(disk, dir) ==
    The({ FsAdd(made, << rel \o Slash \o DotGit >>) :
            made \in {FsMakeDirectory(disk, dir)},
            rel \in {Relative(CacheRoot, dir)} })

(* --------------------------- repo-docs.ts ----------------------------- *)

\* how the command ended
Running == [status |-> "running"]

Success == [status |-> "ok"]

Fail(e) == [tag |-> "Fail", error |-> e]

Ok(v) == [tag |-> "Ok", value |-> v]

HomeNotSetError == [error |-> "HomeNotSetError"]

MissingArgumentError == [error |-> "MissingArgumentError"]

InvalidUrlError(url) == [error |-> "InvalidUrlError", url |-> url]

NotGitRepoError(dir) == [error |-> "NotGitRepoError", dir |-> dir]

GitOperationError(operation, label) ==
    [error |-> "GitOperationError", operation |-> operation, label |-> label]

\* the failure of PlatformCommand.start, carrying its message
PlatformError(message) == [error |-> "PlatformError", message |-> message]

\* a variant of baseDir that fails only when HOME is unset
baseDir_EmptyAccepted(h) ==
    IF h = None THEN Fail(HomeNotSetError)
    ELSE Ok(PathJoin(<< h.value, << ".", "l", "o", "c", "a", "l" >>, << "r", "e", "p", "o", "s" >> >>))

\* baseDir: the cache root, or HomeNotSetError when HOME is unset or empty
baseDir(h) ==
    IF h = None \/ h.value = << >> THEN Fail(HomeNotSetError)
    ELSE Ok(PathJoin(<< h.value, << ".", "l", "o", "c", "a", "l" >>, << "r", "e", "p", "o", "s" >> >>))

\* a variant of resolveWith that looks at the URL before the cache root
resolveWith_UrlFirst(url, base, parts) ==
    IF parts = None THEN Fail(InvalidUrlError(url))
    ELSE IF base.tag = "Fail" THEN base
    ELSE Ok([url |-> url,
             org |-> parts.value.org,
             repo |-> parts.value.repo,
             dir |-> PathJoin(<< base.value, parts.value.org, parts.value.repo >>),
             label |-> parts.value.org \o Slash \o parts.value.repo])

\* a variant of resolveWith whose directory depends on what the disk holds
resolveWith_DiskDependent(url, base, parts) ==
    IF base.tag = "Fail" THEN base
    ELSE IF parts = None THEN Fail(InvalidUrlError(url))
    ELSE Ok([url |-> url,
             org |-> parts.value.org,
             repo |-> parts.value.repo,
             dir |-> IF fs = fs0
                     THEN PathJoin(<< base.value, parts.value.org, parts.value.repo >>)
                     ELSE PathJoin(<< base.value, parts.value.repo >>),
             label |-> parts.value.org \o Slash \o parts.value.repo])

\* resolveTarget, from the results of baseDir and parseRepoParts on
resolveWith(url, base, parts) ==
    IF base.tag = "Fail" THEN base
    ELSE IF parts = None THEN Fail(InvalidUrlError(url))
    ELSE Ok([url |-> url,
             org |-> parts.value.org,
             repo |-> parts.value.repo,
             dir |-> PathJoin(<< base.value, parts.value.org, parts.value.repo >>),
             label |-> parts.value.org \o Slash \o parts.value.repo])

resolveTarget(url, h) ==
    The({ resolveWith(url, base, parts) :
            base \in {baseDir(h)}, parts \in {parseRepoParts(url)} })

\* a variant of pullRepo that clones into the directory again
pullRepo_Clone(repoDir) ==
    [args |-> << "clone", "--depth", "1", Basename(repoDir), repoDir >>,
     cwd |-> None]

\* makeGitCommand for pullRepo: git pull, run in repoDir
pullRepo(repoDir) == [args |-> << "pull" >>, cwd |-> Some(repoDir)]

\* a variant of cloneRepo that builds the URL from the parsed names
cloneRepo_RebuiltUrl(t) ==
    [args |-> << "clone", "--depth", "1", << "h", "t", "t", "p", "s", ":", "/", "/", "h", "/" >> \o t.label, t.dir >>,
     cwd |-> None]

\* makeGitCommand for cloneRepo: git clone --depth 1 <url> <dir>, no cwd
cloneRepo(t) ==
    [args |-> << "clone", "--depth", "1", t.url, t.dir >>, cwd |-> None]

\* a variant of Dedupe that keeps every occurrence
Dedupe_Nothing(seq) == seq

\* Arr.dedupe: the first occurrence of every element, in order
RECURSIVE Dedupe(_)
Dedupe(seq) ==
    IF seq = << >> THEN << >>
    ELSE IF InSeq(seq[Len(seq)], Slice(seq, 1, Len(seq) - 1))
    THEN Dedupe(Slice(seq, 1, Len(seq) - 1))
    ELSE Append(Dedupe(Slice(seq, 1, Len(seq) - 1)), seq[Len(seq)])

\* findGitRepos: the directory of one .git entry
repoDirOf(root, entry) ==
    The({ Dirname(gitDir) :
            gitDir \in {IF IsAbsolute(entry) THEN entry
                        ELSE PathJoin(<< root, entry >>)} })

repoDirsOf(root, gitDirs) ==
    [i \in 1..Len(gitDirs) |-> repoDirOf(root, gitDirs[i])]

\* a variant of reposOfListing that takes every entry for a .git directory
reposOfListing_NoFilter(root, entries) ==
    The({ Dedupe(repoDirs) : repoDirs \in {repoDirsOf(root, entries)} })

\* findGitRepos applied to the listing fs.readDirectory returned
reposOfListing(root, entries) ==
    The({ Dedupe(repoDirs) :
            repoDirs \in { repoDirsOf(root, gitDirs) :
                gitDirs \in {SelectSeq(entries,
                                LAMBDA entry : Basename(entry) = DotGit)} } })

findGitRepos(disk, root) ==
    IF ~FsExists(disk, root) THEN << >>
    ELSE reposOfListing(root, FsReadDirectory(disk))

\* a variant of pullCatchAll whose result has the exit code of a success
pullCatchAll_ExitZero(error) ==
    Some([exitCode |-> 0, stdout |-> << >>, stderr |-> toErrorMessage(error)])

\* a variant of pullCatchAll that handles nothing
pullCatchAll_Rethrow(error) == None

\* the handler given to Effect.catchAll in pullWithSummary: the result that
\* stands for a pull that failed instead of returning; None would let the
\* failure through
pullCatchAll(error) ==
    Some([exitCode |-> 1, stdout |-> << >>, stderr |-> toErrorMessage(error)])

\* a variant of pullWithSummary that takes exit code 1 for a success too
pullWithSummary_LenientOk(base, repoDir, r) ==
    [repoDir |-> repoDir,
     label |-> Relative(base, repoDir),
     ok |-> r.exitCode <= 1,
     output |-> formatOutput(r),
     exitCode |-> r.exitCode]

\* a variant of pullWithSummary that labels a repository by its base name
pullWithSummary_BaseNameLabel(base, repoDir, r) ==
    [repoDir |-> repoDir,
     label |-> Basename(repoDir),
     ok |-> r.exitCode = 0,
     output |-> formatOutput(r),
     exitCode |-> r.exitCode]

\* the record pullWithSummary returns for a CommandOutput
pullWithSummary(base, repoDir, r) ==
    [repoDir |-> repoDir,
     label |-> Relative(base, repoDir),
     ok |-> r.exitCode = 0,
     output |-> formatOutput(r),
     exitCode |-> r.exitCode]

\* a variant of resultSlot that stores results in the order of completion
resultSlot_CompletionOrder(res, i) ==
    1 + Cardinality({j \in 1..Len(res) : res[j] # None})

\* Effect.forEach: the place of the result of the item at index i
resultSlot(res, i) == i

\* variants of forEachLimit: one pull more at once, and one pull at a time
forEachLimit_OneMore == Concurrency + 1

forEachLimit_Sequential == Concurrency - 3

\* Effect.forEach: the number of pulls that may run at once
forEachLimit == Concurrency

\* a variant of nextAfter with which a worker takes the same index again
nextAfter_SameAgain(i) == i

\* Effect.forEach: the index a worker takes after index i
nextAfter(i) == i + 1

\* the lines of the summary: results.map(...)
summaryLines(res) ==
    [i \in 1..Len(res) |->
        (IF res[i].ok THEN TxtOK ELSE TxtFAIL) \o res[i].label]

\* the entry of one failure in the Failures section
failureLine(failure) ==
    IF Len(failure.output) > 0
    THEN failure.label \o << "\n" >> \o failure.output
    ELSE failure.label \o TxtNoOutput

successesOf(res) == SelectSeq(res, LAMBDA r : r.ok)

failuresOf(res) == SelectSeq(res, LAMBDA r : ~r.ok)

doneLine(res) ==
    TxtDone \o NumStr(Len(successesOf(res))) \o TxtOkComma
        \o NumStr(Len(failuresOf(res))) \o TxtFailed

failureLines(failures) ==
    IF Len(failures) > 0
    THEN << TxtFailures >>
            \o [i \in 1..Len(failures) |-> failureLine(failures[i])]
    ELSE << >>

\* a variant of failureSection that lists every result
failureSection_EveryResult(res) == failureLines(res)

\* the Failures section, printed only when something failed
failureSection(res) ==
    The({ failureLines(failures) : failures \in {failuresOf(res)} })

\* a variant of logOutput that writes every output with Console.log
logOutput_AlwaysLog(output, exitCode) ==
    IF Len(output) = 0 THEN [out |-> << >>, err |-> << >>]
    ELSE [out |-> << output >>, err |-> << >>]

\* logResultOutput: where the combined output goes
logOutput(output, exitCode) ==
    IF Len(output) = 0 THEN [out |-> << >>, err |-> << >>]
    ELSE IF exitCode = 0 THEN [out |-> << output >>, err |-> << >>]
    ELSE [out |-> << >>, err |-> << output >>]

logResultOutput(r) ==
    The({ logOutput(output, r.exitCode) : output \in {formatOutput(r)} })

(* ------------------------------ the run ------------------------------- *)

ArgChoices == [url : {None} \cup {Some(u) : u \in Urls}, syncAll : BOOLEAN]

HomeChoices == {None, Some(<< >>), Some(Home)}

\* the disks with many repositories are used for a plain --sync-all with
\* HOME set; every other command line runs on the disks with at most two
Scenario(a, h, disk) ==
    \/ a.syncAll /\ a.url = None /\ h = Some(Home)
    \/ disk \in FsChoices(2)

InitWith(a, h, disk, hung) ==
    /\ args = a
    /\ home = h
    /\ fs = disk
    /\ pc = "start"
    /\ target = None
    /\ op = ""
    /\ result = None
    /\ repos = << >>
    /\ nextIdx = 1
    /\ running = {}
    /\ results = << >>
    /\ out = << >>
    /\ err = << >>
    /\ gitCalls = << >>
    /\ exit = Running
    /\ hangs = hung
    /\ fs0 = disk
    /\ ended = << >>
    /\ outOfOrder = FALSE
    /\ peer = [pc |-> "start", target |-> None, op |-> "", result |-> None,
               out |-> << >>, err |-> << >>, exit |-> Running]

Init ==
    \E a \in ArgChoices, h \in HomeChoices, disk \in FsChoices(MaxRepos) :
        /\ Scenario(a, h, disk)
        /\ InitWith(a, h, disk, {})

\* the end of the command with an error
Abort(error) ==
    /\ pc' = "done"
    /\ exit' = error

\* a variant of Dispatch that syncs everything when no URL is given
Dispatch_DefaultsToSyncAll ==
    /\ pc = "start"
    /\ IF args.syncAll \/ args.url = None
       THEN pc' = "discover" /\ exit' = exit
       ELSE pc' = "resolve" /\ exit' = exit
    /\ UNCHANGED << args, home, fs, target, op, result, repos, nextIdx, running,
                    results, out, err, gitCalls, hangs, fs0, peer, ended, outOfOrder >>

\* a variant of Dispatch that looks at the URL before --sync-all
Dispatch_UrlFirst ==
    /\ pc = "start"
    /\ IF args.url # None
       THEN pc' = "resolve" /\ exit' = exit
       ELSE IF args.syncAll
       THEN pc' = "discover" /\ exit' = exit
       ELSE Abort(MissingArgumentError)
    /\ UNCHANGED << args, home, fs, target, op, result, repos, nextIdx, running,
                    results, out, err, gitCalls, hangs, fs0, peer, ended, outOfOrder >>

\* repoDocs: the handler of the command
Dispatch ==
    /\ pc = "start"
    /\ IF args.syncAll
       THEN pc' = "discover" /\ exit' = exit
       ELSE IF args.url # None
       THEN pc' = "resolve" /\ exit' = exit
       ELSE Abort(MissingArgumentError)
    /\ UNCHANGED << args, home, fs, target, op, result, repos, nextIdx, running,
                    results, out, err, gitCalls, hangs, fs0, peer, ended, outOfOrder >>

(* ------------------------- single-URL sync ---------------------------- *)

\* syncSingle: resolveTarget(url)
ResolveTarget ==
    /\ pc = "resolve"
    /\ \E t \in {resolveTarget(args.url.value, home)} :
        IF t.tag = "Fail"
        THEN Abort(t.error) /\ target' = target
        ELSE pc' = "exists" /\ target' = t.value /\ exit' = exit
    /\ UNCHANGED << args, home, fs, op, result, repos, nextIdx, running,
                    results, out, err, gitCalls, hangs, fs0, peer, ended, outOfOrder >>

\* a variant of syncSingleBranch that never looks at the disk
syncSingleBranch_AlwaysClone(disk, t) == "logClone"

\* a variant of syncSingleBranch that clones over whatever is no repository
syncSingleBranch_CloneUnlessRepo(disk, t) ==
    IF FsExists(disk, PathJoin(<< t.dir, DotGit >>)) THEN "isGit" ELSE "logClone"

\* a variant of syncSingleBranch that goes to the clone without its line
syncSingleBranch_NoCloningLine(disk, t) ==
    IF FsExists(disk, t.dir) THEN "isGit" ELSE "mkdir"

\* a variant of syncSingleBranch that takes the directory for present while
\* another run is cloning into it
syncSingleBranch_SeesPeerClone(disk, t) ==
    IF FsExists(disk, t.dir) \/ (peer.op = "clone" /\ peer.target = t)
    THEN "isGit" ELSE "logClone"

\* syncSingle: exists ? syncExistingRepo(target) : cloneNewRepo(target)
syncSingleBranch(disk, t) ==
    IF FsExists(disk, t.dir) THEN "isGit" ELSE "logClone"

CheckExists ==
    /\ pc = "exists"
    /\ pc' = syncSingleBranch(fs, target)
    /\ UNCHANGED << args, home, fs, target, op, result, repos, nextIdx, running,
                    results, out, err, gitCalls, exit, hangs, fs0, peer, ended, outOfOrder >>

\* a variant of isGit that looks at the directory and not at its .git
isGit_DirectoryOnly(disk, t) == FsExists(disk, t.dir)

\* syncExistingRepo: isGit = fs.exists(path.join(target.dir, ".git"))
isGit(disk, t) == FsExists(disk, PathJoin(<< t.dir, DotGit >>))

CheckIsGit ==
    /\ pc = "isGit"
    /\ IF ~isGit(fs, target)
       THEN Abort(NotGitRepoError(target.dir))
       ELSE pc' = "logPull" /\ exit' = exit
    /\ UNCHANGED << args, home, fs, target, op, result, repos, nextIdx, running,
                    results, out, err, gitCalls, hangs, fs0, peer, ended, outOfOrder >>

\* syncExistingRepo: Console.log(`Pulling ${target.label}`)
LogPulling ==
    /\ pc = "logPull"
    /\ out' = Append(out, TxtPulling \o target.label)
    /\ pc' = "pull"
    /\ UNCHANGED << args, home, fs, target, op, result, repos, nextIdx, running,
                    results, err, gitCalls, exit, hangs, fs0, peer, ended, outOfOrder >>

\* syncExistingRepo: pullRepo(target.dir) starts git
StartPull ==
    /\ pc = "pull"
    /\ gitCalls' = Append(gitCalls, pullRepo(target.dir))
    /\ op' = "pull"
    /\ pc' = "git"
    /\ UNCHANGED << args, home, fs, target, result, repos, nextIdx, running,
                    results, out, err, exit, hangs, fs0, peer, ended, outOfOrder >>

\* cloneNewRepo: Console.log(`Cloning ${target.label}`)
LogCloning ==
    /\ pc = "logClone"
    /\ out' = Append(out, TxtCloning \o target.label)
    /\ pc' = "mkdir"
    /\ UNCHANGED << args, home, fs, target, op, result, repos, nextIdx, running,
                    results, err, gitCalls, exit, hangs, fs0, peer, ended, outOfOrder >>

\* cloneRepo: fs.makeDirectory(path.dirname(target.dir), { recursive: true })
MakeParentDir ==
    /\ pc = "mkdir"
    /\ fs' = FsMakeDirectory(fs, Dirname(target.dir))
    /\ pc' = "clone"
    /\ UNCHANGED << args, home, target, op, result, repos, nextIdx, running,
                    results, out, err, gitCalls, exit, hangs, fs0, peer, ended, outOfOrder >>

\* cloneRepo: runGit(["clone", "--depth", "1", target.url, target.dir])
StartClone ==
    /\ pc = "clone"
    /\ gitCalls' = Append(gitCalls, cloneRepo(target))
    /\ op' = "clone"
    /\ pc' = "git"
    /\ UNCHANGED << args, home, fs, target, result, repos, nextIdx, running,
                    results, out, err, exit, hangs, fs0, peer, ended, outOfOrder >>

\* runCommand returns the CommandOutput of the git process; a clone that
\* exits 0 has created the target directory
GitReturns ==
    /\ pc = "git"
    /\ \E r \in GitOutputs :
        /\ result' = Some(r)
        /\ fs' = IF op = "clone" /\ r.exitCode = 0
                 THEN FsClone(fs, target.dir) ELSE fs
    /\ pc' = "handle"
    /\ UNCHANGED << args, home, target, op, repos, nextIdx, running,
                    results, out, err, gitCalls, exit, hangs, fs0, peer, ended, outOfOrder >>

\* PlatformCommand.start fails: the error ends the single-URL sync
GitFailsToStart ==
    /\ pc = "git"
    /\ \E e \in StartErrors : Abort(PlatformError(e))
    /\ UNCHANGED << args, home, fs, target, op, result, repos, nextIdx, running,
                    results, out, err, gitCalls, hangs, fs0, peer, ended, outOfOrder >>

\* handleGitResult(result, label, operation)
HandleGitResult ==
    /\ pc = "handle"
    /\ \E log \in {logResultOutput(result.value)} :
        /\ err' = err \o log.err
        /\ IF result.value.exitCode = 0
           THEN /\ out' = (out \o log.out) \o << TxtOK \o target.label >>
                /\ pc' = "done"
                /\ exit' = Success
           ELSE /\ out' = out \o log.out
                /\ Abort(GitOperationError(op, target.label))
    /\ UNCHANGED << args, home, fs, target, op, result, repos, nextIdx, running,
                    results, gitCalls, hangs, fs0, peer, ended, outOfOrder >>

(* ----------------------------- --sync-all ----------------------------- *)

\* syncAllRepos: baseDir, findGitRepos, the "No repos" or "Syncing" line
Discover ==
    /\ pc = "discover"
    /\ \E base \in {baseDir(home)} :
        IF base.tag = "Fail"
        THEN /\ Abort(base.error)
             /\ UNCHANGED << repos, results, ended, out >>
        ELSE \E found \in {findGitRepos(fs, base.value)} :
               /\ repos' = found
               /\ results' = [i \in 1..Len(found) |-> None]
               /\ ended' = [i \in 1..Len(found) |-> None]
               /\ IF Len(found) = 0
                  THEN /\ out' = Append(out, TxtNoRepos \o base.value)
                       /\ pc' = "done"
                       /\ exit' = Success
                  ELSE /\ out' = Append(out, (TxtSyncing \o NumStr(Len(found)))
                                                \o TxtRepos)
                       /\ pc' = "syncing"
                       /\ exit' = exit
    /\ UNCHANGED << args, home, fs, target, op, result, nextIdx, running,
                    err, gitCalls, hangs, fs0, peer, outOfOrder >>

\* Effect.forEach: a free worker takes the next repository and starts its pull
PullStart(i) ==
    /\ pc = "syncing"
    /\ i = nextIdx
    /\ i <= Len(repos)
    /\ Cardinality(running) < forEachLimit
    /\ running' = running \cup {i}
    /\ nextIdx' = nextAfter(i)
    /\ gitCalls' = Append(gitCalls, pullRepo(repos[i]))
    /\ UNCHANGED << args, home, fs, pc, target, op, result, repos, results,
                    out, err, exit, hangs, fs0, peer, ended, outOfOrder >>

\* the ways a pull ends: the git process exits, or the pull effect fails
Exited(r) == [kind |-> "exit", output |-> r]

Failed(e) == [kind |-> "error", message |-> e]

\* a variant of Complete that prints the line of an outcome as soon as the
\* pull has ended
Complete_PrintsAtOnce(i, r, how) ==
    /\ running' = running \ {i}
    /\ ended' = [ended EXCEPT ![i] = how]
    /\ outOfOrder' = (outOfOrder \/ \E j \in running : j < i)
    /\ out' = Append(out, (IF r.exitCode = 0 THEN TxtOK ELSE TxtFAIL)
                            \o Relative(baseDir(home).value, repos[i]))
    /\ results' = [results EXCEPT ![resultSlot(results, i)] =
                        pullWithSummary(baseDir(home).value, repos[i], r)]
    /\ UNCHANGED << args, home, fs, pc, target, op, result, repos, nextIdx,
                    err, gitCalls, exit, hangs, fs0, peer >>

\* the pull of repository i ends with CommandOutput r: pullWithSummary builds
\* the outcome and Effect.forEach stores it
Complete(i, r, how) ==
    /\ running' = running \ {i}
    /\ ended' = [ended EXCEPT ![i] = how]
    /\ outOfOrder' = (outOfOrder \/ \E j \in running : j < i)
    /\ results' = [results EXCEPT ![resultSlot(results, i)] =
                        pullWithSummary(baseDir(home).value, repos[i], r)]
    /\ UNCHANGED << args, home, fs, pc, target, op, result, repos, nextIdx,
                    out, err, gitCalls, exit, hangs, fs0, peer >>

\* a variant of PullReturnsFrom in which a pull that hangs is ended after a
\* while, as a timeout would end it
PullReturnsFrom_TimesOut(i, outputs) ==
    /\ pc = "syncing"
    /\ i \in running
    /\ \E r \in outputs : Complete(i, r, Exited(r))

\* the git process of repository i exits
PullReturnsFrom(i, outputs) ==
    /\ pc = "syncing"
    /\ i \in running
    /\ i \notin hangs
    /\ \E r \in outputs : Complete(i, r, Exited(r))

\* the pull effect of repository i fails (git cannot be started): catchAll
\* turns the error into a result; an error it let through would fail the
\* Effect.forEach, which interrupts the other pulls
PullFailsFrom(i, errors) ==
    /\ pc = "syncing"
    /\ i \in running
    /\ i \notin hangs
    /\ \E e \in errors : \E caught \in {pullCatchAll(e)} :
        IF caught # None
        THEN Complete(i, caught.value, Failed(e))
        ELSE /\ Abort(PlatformError(e))
             /\ running' = {}
             /\ ended' = [ended EXCEPT ![i] = Failed(e)]
             /\ UNCHANGED << args, home, fs, target, op, result, repos, nextIdx,
                             results, out, err, gitCalls, hangs, fs0, peer, outOfOrder >>

PullReturns(i) == PullReturnsFrom(i, PullOutputs)

PullFails(i) == PullFailsFrom(i, StartErrors)

\* a variant of forEachDone that waits until every pull has succeeded
forEachDone_AllSucceeded ==
    /\ nextIdx > Len(repos)
    /\ running = {}
    /\ \A i \in 1..Len(repos) : results[i] # None /\ results[i].ok

\* Effect.forEach returns once every repository has a result
forEachDone == nextIdx > Len(repos) /\ running = {}

\* syncAllRepos: the "Done." line
ReportDone ==
    /\ pc = "syncing"
    /\ forEachDone
    /\ out' = Append(out, doneLine(results))
    /\ pc' = "summary"
    /\ UNCHANGED << args, home, fs, target, op, result, repos, nextIdx, running,
                    results, err, gitCalls, exit, hangs, fs0, peer, ended, outOfOrder >>

\* syncAllRepos: one OK or FAIL line per result
ReportSummary ==
    /\ pc = "summary"
    /\ out' = out \o summaryLines(results)
    /\ pc' = "failures"
    /\ UNCHANGED << args, home, fs, target, op, result, repos, nextIdx, running,
                    results, err, gitCalls, exit, hangs, fs0, peer, ended, outOfOrder >>

\* a variant of ReportFailures that ends the command with an error when a
\* pull failed
ReportFailures_FailOnFailure ==
    /\ pc = "failures"
    /\ out' = out \o failureSection(results)
    /\ pc' = "done"
    /\ exit' = (IF Len(failuresOf(results)) = 0 THEN Success
                ELSE GitOperationError("pull", failuresOf(results)[1].label))
    /\ UNCHANGED << args, home, fs, target, op, result, repos, nextIdx, running,
                    results, err, gitCalls, hangs, fs0, peer, ended, outOfOrder >>

\* syncAllRepos: the Failures section, and the end of the command
ReportFailures ==
    /\ pc = "failures"
    /\ out' = out \o failureSection(results)
    /\ pc' = "done"
    /\ exit' = Success
    /\ UNCHANGED << args, home, fs, target, op, result, repos, nextIdx, running,
                    results, err, gitCalls, hangs, fs0, peer, ended, outOfOrder >>

(* --------------------------- specifications --------------------------- *)

SingleNext ==
    \/ ResolveTarget
    \/ CheckExists
    \/ CheckIsGit
    \/ LogPulling
    \/ StartPull
    \/ LogCloning
    \/ MakeParentDir
    \/ StartClone
    \/ GitReturns
    \/ GitFailsToStart
    \/ HandleGitResult

ReportNext ==
    \/ ReportDone
    \/ ReportSummary
    \/ ReportFailures

Next ==
    \/ Dispatch
    \/ SingleNext
    \/ Discover
    \/ \E i \in 1..Len(repos) : PullStart(i)
    \/ \E i \in 1..Len(repos) : PullReturns(i)
    \/ \E i \in 1..Len(repos) : PullFails(i)
    \/ ReportNext

Spec == Init /\ [][Next]_vars

(* ------------------- --sync-all with pulls that hang ------------------ *)

PullReturnsLive(i) == PullReturnsFrom(i, LiveOutputs)

PullFailsLive(i) == PullFailsFrom(i, LiveErrors)

\* a plain --sync-all over 1..MaxLiveRepos repositories, of which at most one
\* has a pull that never returns
InitLive ==
    \E n \in 1..MaxLiveRepos :
        \E hung \in {h \in SUBSET (1..n) : Cardinality(h) <= 1} :
            InitWith([url |-> None, syncAll |-> TRUE], Some(Home),
                     FsTree(n, TRUE), hung)

NextLive ==
    \/ Dispatch
    \/ Discover
    \/ \E i \in 1..Len(repos) : PullStart(i)
    \/ \E i \in 1..Len(repos) : PullReturnsLive(i)
    \/ \E i \in 1..Len(repos) : PullFailsLive(i)
    \/ ReportNext

\* the main fiber runs on, a free worker of Effect.forEach takes the next
\* repository, and a pull that does not hang ends
Fairness ==
    /\ WF_vars(Dispatch \/ Discover \/ ReportNext)
    /\ WF_vars(\E i \in 1..Len(repos) : PullStart(i))
    /\ WF_vars(\E i \in 1..Len(repos) : PullReturnsLive(i) \/ PullFailsLive(i))

SpecLive == InitLive /\ [][NextLive]_vars /\ Fairness


(* ------------------ the same single-URL sync, repeated ----------------- *)

\* the command is run again with the same command line, on the disk the
\* run before left; gitCalls goes on recording the invocations of the
\* series and fs0 stays the disk the first run found
Rerun ==
    /\ pc = "done"
    /\ Len(gitCalls) < MaxGitCalls
    /\ pc' = "start"
    /\ target' = None
    /\ op' = ""
    /\ result' = None
    /\ out' = << >>
    /\ err' = << >>
    /\ exit' = Running
    /\ UNCHANGED << args, home, fs, repos, nextIdx, running, results,
                    gitCalls, hangs, fs0, peer, ended, outOfOrder >>

\* a series of single-URL syncs of one URL, with HOME set
InitRepeat ==
    \E u \in Urls, disk \in FsChoices(2) :
        InitWith([url |-> Some(u), syncAll |-> FALSE], Some(Home), disk, {})

NextRepeat ==
    \/ Dispatch
    \/ SingleNext
    \/ Rerun

SpecRepeat == InitRepeat /\ [][NextRepeat]_vars

(* ----------------- a single-URL sync, then a --sync-all ---------------- *)

\* the command has ended and is run again on the disk it left, in the same
\* terminal, with --sync-all in place of the URL
RerunSyncAll ==
    /\ pc = "done"
    /\ ~args.syncAll
    /\ args' = [url |-> None, syncAll |-> TRUE]
    /\ pc' = "start"
    /\ exit' = Running
    /\ UNCHANGED << home, fs, target, op, result, repos, nextIdx, running, results,
                    out, err, gitCalls, hangs, fs0, peer, ended, outOfOrder >>

SpecThenAll == InitRepeat /\ [][Next \/ RerunSyncAll]_vars

(* ------------- single-URL syncs of one repository by other URLs -------- *)

\* the command has ended and is run again on the disk it left, with a URL
\* that has the same last two segments on another host, or after one more
\* leading segment
RerunOtherUrl ==
    /\ pc = "done"
    /\ ~args.syncAll
    /\ target # None
    /\ Len(gitCalls) < MaxGitCalls
    /\ \E u \in { << "h", "t", "t", "p", "s", ":", "/", "/", "h", "/" >> \o target.label, << "h", "t", "t", "p", "s", ":", "/", "/", "k", "/" >> \o target.label,
                   (<< "g", "@", "k", ":", "x", "/" >> \o target.label) \o DotGit } \ { args.url.value } :
        args' = [args EXCEPT !.url = Some(u)]
    /\ pc' = "start"
    /\ target' = None
    /\ op' = ""
    /\ result' = None
    /\ out' = << >>
    /\ err' = << >>
    /\ exit' = Running
    /\ UNCHANGED << home, fs, repos, nextIdx, running, results, gitCalls, hangs,
                    fs0, peer, ended, outOfOrder >>

SpecOtherUrl == InitRepeat /\ [][Dispatch \/ SingleNext \/ RerunOtherUrl]_vars


(* ----------------------- the parser on many URLs ----------------------- *)

\* the pieces the URLs given to the parser are made of
SegmentTokens == { << "a" >>, << "." >>, << ".", "g", "i", "t" >> }

ParseTokens == SegmentTokens \cup { << "h", "t", "t", "p", "s", ":", "/", "/", "h", "/" >>, << "g", "@", "h", ":" >>, << "/" >> }

\* the texts made of at most n of the tokens
RECURSIVE TokenTexts(_, _)
TokenTexts(tokens, n) ==
    IF n = 0 THEN { << >> }
    ELSE The({ shorter \cup { t \o s : t \in tokens, s \in shorter } :
                shorter \in {TokenTexts(tokens, n - 1)} })

\* a single-URL sync of a URL made of tokens, of a path made of tokens on
\* another host, or of an SSH shorthand with a path made of tokens, with HOME
\* set and an empty cache root
InitParse ==
    \E u \in TokenTexts(ParseTokens, MaxTokens)
                \cup { << "h", "t", "t", "p", "s", ":", "/", "/", "u", "@", "k", ":", "8", "/" >> \o s :
                        s \in TokenTexts(SegmentTokens \cup {Slash}, MaxTokens) }
                \cup { << "g", "@", "h", ":" >> \o s :
                        s \in TokenTexts(SegmentTokens \cup {Slash}, MaxTokens) } :
        InitWith([url |-> Some(u), syncAll |-> FALSE], Some(Home),
                 [root |-> TRUE, entries |-> << >>], {})

\* the run up to the end of resolveTarget, which applies parseRepoParts
SpecParse == InitParse /\ [][Dispatch \/ ResolveTarget]_vars


(* --------------------- the discovery on many listings ------------------ *)

\* the entries fs.readDirectory may list: .git directories, relative, with a
\* trailing slash or absolute, and entries that are no .git directory
ListingEntries ==
    { << "a", "/", "1", "/", ".", "g", "i", "t" >>, << "a", "/", "1", "/", ".", "g", "i", "t", "/" >>, << "/", "h", "/", ".", "l", "o", "c", "a", "l", "/", "r", "e", "p", "o", "s", "/", "a", "/", "1", "/", ".", "g", "i", "t" >>, << "b", "/", "2", "/", ".", "g", "i", "t" >>,
      << "a", "/", "1" >>, << "b", "/", "2", "/", "x", ".", "g", "i", "t" >> }

\* the listings of at most n entries, in every order and with repetitions
RECURSIVE Listings(_)
Listings(n) ==
    IF n = 0 THEN { << >> }
    ELSE The({ shorter \cup { Append(l, e) : l \in shorter, e \in ListingEntries } :
                shorter \in {Listings(n - 1)} })

\* a --sync-all with HOME set, on a cache root with one of the listings
InitDiscover ==
    \E listing \in Listings(MaxEntries) :
        InitWith([url |-> None, syncAll |-> TRUE], Some(Home),
                 [root |-> TRUE, entries |-> listing], {})

\* the run up to the end of findGitRepos
SpecDiscover == InitDiscover /\ [][Dispatch \/ Discover]_vars


(* ------------------- two runs of a single-URL sync --------------------- *)

\* the operating system takes the processor from the run that has it and
\* gives it to the other run: two processes of this program share the disk
\* and nothing else
Switch ==
    /\ ~args.syncAll
    /\ peer' = [pc |-> pc, target |-> target, op |-> op, result |-> result,
                out |-> out, err |-> err, exit |-> exit]
    /\ pc' = peer.pc
    /\ target' = peer.target
    /\ op' = peer.op
    /\ result' = peer.result
    /\ out' = peer.out
    /\ err' = peer.err
    /\ exit' = peer.exit
    /\ UNCHANGED << args, home, fs, repos, nextIdx, running, results, gitCalls,
                    hangs, fs0, ended, outOfOrder >>

\* two runs of the same single-URL command line, interleaved step by step
SpecPair == InitRepeat /\ [][Dispatch \/ SingleNext \/ Switch]_vars

(* ------------------------------ claims -------------------------------- *)

\* a --sync-all run that found repositories
BulkRun == args.syncAll /\ Len(repos) > 0

\* the pull of repository i has ended, and ended with exit code 0
EndedOk(i) ==
    /\ ended[i] # None
    /\ ended[i].kind = "exit"
    /\ ended[i].output.exitCode = 0

\* the pull of repository i failed at the orchestration layer
EndedInError(i) == ended[i] # None /\ ended[i].kind = "error"

\* the label of the i-th discovered repository: its path below the cache root
LabelOf(i) == SubSeq(repos[i], Len(CacheRoot) + 2, Len(repos[i]))

\* pulls that have started and have not ended
InFlight == {i \in 1..Len(repos) : i < nextIdx /\ ended[i] = None}

SingleTargetExisted == FsExists(fs0, target.dir)

SingleTargetWasGit == FsExists(fs0, target.dir \o Slash \o DotGit)

\* C1: a single-URL sync invokes git at most once, and which invocation is
\* decided by the disk as found: no target directory, clone; a target
\* directory with .git, pull in that directory; a target directory without
\* .git, no invocation and NotGitRepoError
C1_SingleSyncChoice ==
    (~args.syncAll /\ target # None) =>
        /\ Len(gitCalls) <= 1
        /\ ~SingleTargetExisted =>
            /\ \A k \in 1..Len(gitCalls) : gitCalls[k].args[1] = "clone"
            /\ pc = "done" => Len(gitCalls) = 1
        /\ (SingleTargetExisted /\ SingleTargetWasGit) =>
            /\ \A k \in 1..Len(gitCalls) :
                gitCalls[k] = [args |-> << "pull" >>, cwd |-> Some(target.dir)]
            /\ pc = "done" => Len(gitCalls) = 1
        /\ (SingleTargetExisted /\ ~SingleTargetWasGit) =>
            /\ gitCalls = << >>
            /\ pc = "done" => exit = NotGitRepoError(target.dir)

\* a single-URL sync has ended on a target directory that is no repository
C1_Witness ==
    /\ ~args.syncAll
    /\ target # None
    /\ pc = "done"
    /\ SingleTargetExisted
    /\ ~SingleTargetWasGit

\* C2: once a pull of a --sync-all has failed at the orchestration layer, the
\* run goes on: no started pull is dropped, the command does not end in an
\* error, and when Effect.forEach has returned every discovered repository
\* has its own outcome, whose line is printed by the end
C2_FailureDoesNotAbortSiblings ==
    (BulkRun /\ \E i \in 1..Len(repos) : EndedInError(i)) =>
        /\ exit \in {Running, Success}
        /\ \A i \in 1..Len(repos) :
            i < nextIdx => (i \in running \/ results[i] # None)
        /\ pc \in {"summary", "failures", "done"} =>
            \A i \in 1..Len(repos) :
                results[i] # None /\ results[i].repoDir = repos[i]
        /\ pc = "done" =>
            \A i \in 1..Len(repos) :
                \E k \in 1..Len(out) :
                    out[k] \in {TxtOK \o LabelOf(i), TxtFAIL \o LabelOf(i)}

\* a run has ended in which one pull failed to start and another exited 0
C2_Witness ==
    /\ BulkRun
    /\ pc = "done"
    /\ \E i, j \in 1..Len(repos) : EndedInError(i) /\ EndedOk(j)

\* C3: at most 4 pulls of a --sync-all are in flight, and a repository past
\* the fourth is in flight only after an earlier pull has ended
C3_AtMostFourInFlight ==
    args.syncAll =>
        /\ Cardinality(InFlight) <= 4
        /\ Cardinality(running) <= 4
        /\ \A i \in InFlight :
            Cardinality({j \in 1..(i - 1) : ended[j] # None}) >= i - 4

\* four pulls are in flight, the fifth repository among them
C3_Witness ==
    /\ args.syncAll
    /\ Cardinality(running) = 4
    /\ 5 \in running

\* the OK or FAIL line of the i-th discovered repository, from how its pull
\* ended
ExpectedLine(i) == (IF EndedOk(i) THEN TxtOK ELSE TxtFAIL) \o LabelOf(i)

\* the combined output of the pull of the i-th repository, from how it ended
ExpectedOutput(i) ==
    IF EndedInError(i)
    THEN formatOutput([exitCode |-> 1, stdout |-> << >>,
                       stderr |-> ended[i].message])
    ELSE formatOutput(ended[i].output)

\* the entries of the Failures section for repositories 1..n
RECURSIVE ExpectedFailures(_)
ExpectedFailures(n) ==
    IF n = 0 THEN << >>
    ELSE IF EndedOk(n) THEN ExpectedFailures(n - 1)
    ELSE Append(ExpectedFailures(n - 1),
                IF ExpectedOutput(n) = << >> THEN LabelOf(n) \o TxtNoOutput
                ELSE LabelOf(n) \o << "\n" >> \o ExpectedOutput(n))

\* the whole report, from the repositories and from how each pull ended
ExpectedReport ==
    << (TxtSyncing \o NumStr(Len(repos))) \o TxtRepos,
       TxtDone \o NumStr(Cardinality({i \in 1..Len(repos) : EndedOk(i)}))
               \o TxtOkComma
               \o NumStr(Cardinality({i \in 1..Len(repos) : ~EndedOk(i)}))
               \o TxtFailed >>
        \o [i \in 1..Len(repos) |-> ExpectedLine(i)]
        \o (IF \A i \in 1..Len(repos) : EndedOk(i) THEN << >>
            ELSE << TxtFailures >> \o ExpectedFailures(Len(repos)))

\* C4: whatever the order in which the pulls ended, the report of a
\* --sync-all has the line of the i-th discovered repository in i-th place
\* (after the "Syncing" and "Done." lines), so it is a function of the
\* repositories and of how each pull ended
C4_ReportInDiscoveryOrder ==
    (BulkRun /\ pc = "done" /\ exit = Success) =>
        /\ Len(out) >= 2 + Len(repos)
        /\ \A i \in 1..Len(repos) : out[2 + i] = ExpectedLine(i)
        /\ out = ExpectedReport

\* a report is printed after pulls that ended out of discovery order and
\* with different outcomes
C4_Witness ==
    /\ BulkRun
    /\ pc = "done"
    /\ exit = Success
    /\ outOfOrder
    /\ \E i, j \in 1..Len(repos) : i < j /\ ~EndedOk(i) /\ EndedOk(j)

\* C5: a --sync-all starts at most one pull per discovered repository, and
\* when Effect.forEach has returned every repository has exactly one outcome,
\* ok or not ok
C5_OnePullOneOutcome ==
    args.syncAll =>
        /\ \A i, j \in 1..Len(repos) : repos[i] = repos[j] => i = j
        /\ \A i \in 1..Len(repos) :
            Cardinality({k \in 1..Len(gitCalls) : gitCalls[k].cwd = Some(repos[i])}) <= 1
        /\ (Len(repos) > 0 /\ pc \in {"summary", "failures", "done"}) =>
            /\ Len(results) = Len(repos)
            /\ \A i \in 1..Len(repos) :
                /\ Cardinality({k \in 1..Len(results) :
                        results[k] # None /\ results[k].repoDir = repos[i]}) = 1
                /\ Cardinality({k \in 1..Len(gitCalls) :
                        gitCalls[k] = pullRepo(repos[i])}) = 1
            /\ \A k \in 1..Len(results) :
                results[k] # None /\ results[k].ok \in BOOLEAN

\* a batch of several repositories has finished with a failed pull
C5_Witness ==
    /\ BulkRun
    /\ Len(repos) >= 2
    /\ pc = "done"
    /\ \E i \in 1..Len(repos) : ~EndedOk(i)

\* the pulls of a --sync-all have all ended and the report is printed
Reported == BulkRun /\ pc = "done" /\ exit = Success

\* every discovered repository has had its pull started
AllAttempted ==
    \A i \in 1..Len(repos) :
        \E k \in 1..Len(gitCalls) : gitCalls[k] = pullRepo(repos[i])

\* C6: in a --sync-all in which no pull hangs, once the pulls are under way
\* the run reaches the report having started the pull of every discovered
\* repository, whatever the pulls return
C6_BatchRunsToCompletion ==
    (pc = "syncing" /\ hangs = {}) ~> (Reported /\ AllAttempted)

\* a batch in which no pull hangs has been reported after pulls that failed
C6_Witness ==
    /\ Reported
    /\ AllAttempted
    /\ hangs = {}
    /\ Len(repos) > 4
    /\ \E i, j \in 1..Len(repos) : EndedInError(i) /\ ~EndedOk(j) /\ ~EndedInError(j)

\* every repository but the hung ones has had its pull started and ended
OthersEnded ==
    \A i \in 1..Len(repos) : i \notin hangs => (i < nextIdx /\ ended[i] # None)

\* C7: in a --sync-all in which the pull of one repository never returns and
\* every other pull returns, the pull of every other discovered repository
\* is started and ends
C7_HungPullStarvesOneSlot ==
    (pc = "syncing" /\ Cardinality(hangs) = 1) ~> OthersEnded

\* the first pull hangs and the pulls of more than four other repositories,
\* queued behind it, have all ended
C7_Witness ==
    /\ args.syncAll
    /\ pc = "syncing"
    /\ hangs = {1}
    /\ Len(repos) > 4
    /\ OthersEnded

\* the successes among the discovered repositories, from how the pulls ended
OkCount == Cardinality({i \in 1..Len(repos) : EndedOk(i)})

\* C8: in the report of a --sync-all, an outcome is ok exactly when the exit
\* code of the pull is 0, the two counts of the "Done." line add up to the
\* number of discovered repositories, and every repository has exactly one
\* line, "OK <label>" when its outcome is ok and "FAIL <label>" when not
C8_ReportCountsAndLines ==
    Reported =>
        /\ \A i \in 1..Len(repos) :
            /\ results[i].ok = (results[i].exitCode = 0)
            /\ results[i].ok = EndedOk(i)
            /\ EndedInError(i) \/ results[i].exitCode = ended[i].output.exitCode
        /\ out[2] = TxtDone \o NumStr(OkCount) \o TxtOkComma
                        \o NumStr(Len(repos) - OkCount) \o TxtFailed
        /\ \A i \in 1..Len(repos) :
            /\ Cardinality({k \in 1..Len(out) :
                    out[k] \in {TxtOK \o LabelOf(i), TxtFAIL \o LabelOf(i)}}) = 1
            /\ \E k \in 1..Len(out) :
                out[k] = (IF results[i].ok THEN TxtOK ELSE TxtFAIL) \o LabelOf(i)

\* a report with successes and failures, among them an exit code other than 1
C8_Witness ==
    /\ Reported
    /\ OkCount > 0
    /\ \E i \in 1..Len(repos) :
        ended[i].kind = "exit" /\ ended[i].output.exitCode > 1

\* the indices of the repositories whose pull did not end with exit code 0,
\* in discovery order
RECURSIVE FailedUpTo(_)
FailedUpTo(n) ==
    IF n = 0 THEN << >>
    ELSE IF EndedOk(n) THEN FailedUpTo(n - 1)
    ELSE Append(FailedUpTo(n - 1), n)

\* the entry of the i-th repository in the Failures section
ExpectedFailure(i) ==
    IF results[i].output = << >> THEN LabelOf(i) \o TxtNoOutput
    ELSE LabelOf(i) \o << "\n" >> \o results[i].output

\* what the report holds after the OK and FAIL lines
FailureLinesPrinted == Slice(out, Len(repos) + 3, Len(out))

\* C9: the report of a --sync-all has a "Failures:" line exactly when a
\* repository failed; the line is followed by one entry per failed
\* repository and none for the others, in discovery order, each the label
\* with the combined output, or with "(no output)" exactly when that is empty
C9_FailuresSection ==
    Reported =>
        /\ (\E k \in 1..Len(out) : out[k] = TxtFailures) = (OkCount < Len(repos))
        /\ OkCount = Len(repos) => FailureLinesPrinted = << >>
        /\ OkCount < Len(repos) =>
            /\ Len(FailureLinesPrinted) = 1 + Len(FailedUpTo(Len(repos)))
            /\ FailureLinesPrinted[1] = TxtFailures
            /\ \A k \in 1..Len(FailedUpTo(Len(repos))) :
                FailureLinesPrinted[1 + k] = ExpectedFailure(FailedUpTo(Len(repos))[k])

\* a report with a success between two failures, one of them without output
C9_Witness ==
    /\ Reported
    /\ \E i, j, k \in 1..Len(repos) :
        /\ i < j /\ j < k
        /\ ~EndedOk(i) /\ EndedOk(j) /\ ~EndedOk(k)
        /\ results[i].output = << >>
        /\ results[k].output # << >>

\* C10: a --sync-all that has started a pull ends only with success and with
\* its summary printed, whatever exit codes and failures the pulls ended with
C10_BulkNeverFailsOnPulls ==
    (args.syncAll /\ Len(gitCalls) > 0) =>
        /\ exit \in {Running, Success}
        /\ pc = "done" =>
            /\ exit = Success
            /\ Len(out) >= 2 + Len(repos)
            /\ \E s, f \in 0..Len(repos) :
                out[2] = TxtDone \o NumStr(s) \o TxtOkComma \o NumStr(f) \o TxtFailed

\* a run has ended with success although no pull did: some exited with a
\* code other than 0 and some could not be started
C10_Witness ==
    /\ Reported
    /\ OkCount = 0
    /\ \E i, j \in 1..Len(repos) : EndedInError(i) /\ ended[j].kind = "exit"

(* --------------------------- single-URL sync --------------------------- *)

\* the git invocation of a single-URL sync has returned and was handled
SingleHandled == ~args.syncAll /\ pc = "done" /\ result # None

\* the operation the single-URL sync invoked git with
OperationInvoked == gitCalls[1].args[1]

\* the label of the target: organisation and repository
SingleLabel == target.org \o Slash \o target.repo

\* the combined output of the git invocation, non-empty
SingleOutput == formatOutput(result.value)

\* C11: after the git invocation of a single-URL sync has returned: with exit
\* code 0 "OK <label>" is printed last and the run succeeds; with another
\* exit code the run fails with GitOperationError of the operation invoked
\* and the label, and "OK <label>" is not printed. Combined output that is
\* not empty is written once, with Console.log exactly when the exit code is
\* 0 and with Console.error otherwise
C11_SingleResultHandling ==
    SingleHandled =>
        /\ result.value.exitCode = 0 =>
            /\ exit = Success
            /\ out[Len(out)] = TxtOK \o SingleLabel
            /\ err = << >>
            /\ SingleOutput # << >> =>
                (Len(out) = 3 /\ out[2] = SingleOutput)
            /\ SingleOutput = << >> => Len(out) = 2
        /\ result.value.exitCode # 0 =>
            /\ exit = GitOperationError(OperationInvoked, SingleLabel)
            /\ OperationInvoked \in {"clone", "pull"}
            /\ \A k \in 1..Len(out) : out[k] # TxtOK \o SingleLabel
            /\ Len(out) = 1
            /\ err = (IF SingleOutput = << >> THEN << >> ELSE << SingleOutput >>)

\* a clone has exited with a code other than 0 and with output
C11_Witness ==
    /\ SingleHandled
    /\ OperationInvoked = "clone"
    /\ result.value.exitCode # 0
    /\ err # << >>

\* C12: a single-URL sync whose target directory exists without .git leaves
\* the disk as it found it and starts no git process: it only checks the
\* directory and ends with NotGitRepoError
C12_NonRepoLeftAlone ==
    (~args.syncAll /\ target # None /\ SingleTargetExisted /\ ~SingleTargetWasGit) =>
        /\ fs = fs0
        /\ gitCalls = << >>
        /\ result = None
        /\ pc \in {"exists", "isGit", "done"}
        /\ exit # Success
        /\ pc = "done" => exit = NotGitRepoError(target.dir)

\* the sync of a directory that is no repository has failed, the directory
\* and the rest of the disk being as before
C12_Witness ==
    /\ ~args.syncAll
    /\ target # None
    /\ SingleTargetExisted
    /\ ~SingleTargetWasGit
    /\ exit = NotGitRepoError(target.dir)
    /\ fs = fs0
    /\ Len(fs.entries) > 0

\* the directories git clone was invoked for
CloneDirs ==
    {gitCalls[k].args[5] : k \in {j \in 1..Len(gitCalls) : gitCalls[j].args[1] = "clone"}}

\* directories that did not exist when the series began and that a clone has
\* created since, with their .git
ClonedDirs ==
    {d \in CloneDirs :
        ~FsExists(fs0, d) /\ FsExists(fs, d) /\ FsExists(fs, d \o Slash \o DotGit)}

\* a sync that began after the clone succeeded: its git has not returned
LaterSync == ClonedDirs # {} /\ result = None

\* C13 (states): a single-URL sync that begins after a clone of the same URL
\* has succeeded does not go the way of a clone, and when it has invoked git
\* it has invoked pull in the cloned directory
C13_LaterSyncPulls ==
    LaterSync =>
        /\ pc \notin {"logClone", "mkdir", "clone"}
        /\ pc \in {"git", "handle", "done"} =>
            /\ op = "pull"
            /\ \E d \in ClonedDirs : gitCalls[Len(gitCalls)] = pullRepo(d)

\* C13 (steps): once a clone has succeeded, a step invokes git only for a
\* pull in the cloned directory
C13_NoCloneAgain ==
    ClonedDirs # {} =>
        \/ gitCalls' = gitCalls
        \/ \E d \in ClonedDirs : gitCalls' = Append(gitCalls, pullRepo(d))

\* C13: starting without the target directory, after a single-URL sync whose
\* clone succeeded every later single-URL sync of the same URL invokes pull
\* and never clone
C13_CloneThenPull == [](C13_LaterSyncPulls) /\ [][C13_NoCloneAgain]_vars

\* a first clone failed, a second succeeded, and the sync after it pulled
C13_Witness ==
    /\ Len(gitCalls) = 3
    /\ gitCalls[1].args[1] = "clone"
    /\ gitCalls[2].args[1] = "clone"
    /\ gitCalls[3] = pullRepo(gitCalls[2].args[5])
    /\ ClonedDirs # {}
    /\ pc = "done"

\* the directory of the organisation, parent of the target, is on the disk
ParentOnDisk(disk) == disk.root /\ InSeq(target.org, disk.entries)

\* C14: a single-URL sync whose target directory does not exist has created
\* the parent directory, with the directories above it, before it invokes
\* git, and invokes git once, as clone --depth 1 with the URL as given on
\* the command line and the target directory <cache root>/<org>/<repo>
C14_CloneInvocation ==
    (~args.syncAll /\ target # None /\ ~SingleTargetExisted) =>
        /\ pc \in {"clone", "git", "handle", "done"} => ParentOnDisk(fs)
        /\ pc \in {"exists", "logClone", "mkdir", "clone"} => gitCalls = << >>
        /\ pc \in {"git", "handle", "done"} =>
            gitCalls =
                << [args |-> << "clone", "--depth", "1", args.url.value,
                                ((CacheRoot \o Slash) \o target.org)
                                    \o (Slash \o target.repo) >>,
                    cwd |-> None] >>

\* a clone was invoked with a URL in SSH form, ending in .git, on a disk that
\* had no cache root, and succeeded
C14_Witness ==
    /\ ~args.syncAll
    /\ target # None
    /\ ~fs0.root
    /\ args.url.value = << "g", "@", "h", ":", "b", "/", "2", ".", "g", "i", "t" >>
    /\ pc = "done"
    /\ exit = Success
    /\ ParentOnDisk(fs)

(* ------------------------ nothing to do, no input ---------------------- *)

\* HOME is set to a text that is not empty
HomeSet == home # None /\ home.value # << >>

\* the disk has no cache root, or no entry below it is named .git
NoGitEntry(disk) ==
    \/ ~disk.root
    \/ \A k \in 1..Len(disk.entries) :
        /\ disk.entries[k] # DotGit
        /\ ~EndsWith(disk.entries[k], Slash \o DotGit)

\* C15: a --sync-all (with HOME set) on a disk without cache root, or with a
\* cache root that holds no entry named .git, starts no git process, changes
\* nothing on disk, prints no "Done." line, and ends with success having
\* printed only "No repos found in <cache root>"
C15_NoReposFound ==
    (args.syncAll /\ HomeSet /\ NoGitEntry(fs0)) =>
        /\ gitCalls = << >>
        /\ fs = fs0
        /\ exit \in {Running, Success}
        /\ pc \in {"start", "discover", "done"}
        /\ \A k \in 1..Len(out) : ~MatchAt(out[k], TxtDone, 1)
        /\ pc = "done" =>
            /\ exit = Success
            /\ out = << TxtNoRepos \o CacheRoot >>
            /\ err = << >>

\* a --sync-all has ended on a cache root that holds directories and no .git
C15_Witness ==
    /\ args.syncAll
    /\ HomeSet
    /\ fs0.root
    /\ Len(fs0.entries) > 0
    /\ NoGitEntry(fs0)
    /\ pc = "done"
    /\ exit = Success

\* nothing was printed, nothing on disk was changed, no git process started
NothingDone ==
    /\ fs = fs0
    /\ gitCalls = << >>
    /\ out = << >>
    /\ err = << >>
    /\ target = None
    /\ repos = << >>

\* C16: the command run with neither a URL nor --sync-all does nothing but
\* end with MissingArgumentError, whether HOME is set or not
C16_MissingArgument ==
    (~args.syncAll /\ args.url = None) =>
        /\ NothingDone
        /\ pc \in {"start", "done"}
        /\ pc = "done" => exit = MissingArgumentError

\* the command given no argument has ended, HOME being unset
C16_Witness ==
    /\ ~args.syncAll
    /\ args.url = None
    /\ home = None
    /\ pc = "done"
    /\ exit = MissingArgumentError

\* C17: without HOME (unset or empty), the single-URL sync and the
\* --sync-all both end with HomeNotSetError, having checked nothing on disk,
\* created no directory and started no git process
C17_HomeNotSet ==
    (~HomeSet /\ (args.syncAll \/ args.url # None)) =>
        /\ NothingDone
        /\ pc \in {"start", "resolve", "discover", "done"}
        /\ pc = "done" => exit = HomeNotSetError

\* a --sync-all on a disk with repositories has ended for want of HOME
C17_Witness ==
    /\ args.syncAll
    /\ home = None
    /\ Len(fs0.entries) > 3
    /\ pc = "done"
    /\ exit = HomeNotSetError

Parsed == pc \notin {"start", "resolve"} /\ target # None

\* the last non-empty segment of the path extracted from the URL
LastSegment ==
    The({ segs[Len(segs)] :
            segs \in {NonEmpty(Split(extractPath(args.url.value), "/"))} })

\* C19 as claimed: the org and the repo of every RepoParts are non-empty and
\* the repo never ends in ".git"
C19_RepoNeverEndsInGit ==
    Parsed =>
        /\ target.org # << >>
        /\ target.repo # << >>
        /\ ~EndsWith(target.repo, DotGit)

\* C19, amended: the org and the repo of every RepoParts are non-empty, and
\* the repo is the last non-empty segment of the extracted path less one
\* trailing ".git": it ends in ".git" exactly when that segment ends in
\* ".git.git"
C19_RepoStrippedOnce ==
    Parsed =>
        /\ target.org # << >>
        /\ target.repo # << >>
        /\ target.repo =
            (IF EndsWith(LastSegment, DotGit)
             THEN SubSeq(LastSegment, 1, Len(LastSegment) - 4)
             ELSE LastSegment)
        /\ EndsWith(target.repo, DotGit) = EndsWith(LastSegment, DotGit \o DotGit)

\* a URL whose last segment ends in ".git.git" was parsed
C19_Witness ==
    /\ Parsed
    /\ EndsWith(LastSegment, DotGit \o DotGit)
    /\ EndsWith(target.repo, DotGit)

\* the segments ORG and REPO are drawn from: one or two tokens
SafeSegments == TokenTexts(SegmentTokens, 2) \ { << >> }

\* the URL is https://<host>/ORG/REPO or https://<host>/ORG/REPO.git
HttpsFormOf(ORG, REPO) ==
    \E prefix \in { << "h", "t", "t", "p", "s", ":", "/", "/", "h", "/" >>, << "h", "t", "t", "p", "s", ":", "/", "/", "u", "@", "k", ":", "8", "/" >> } :
        \/ args.url.value = ((prefix \o ORG) \o Slash) \o REPO
        \/ args.url.value = (((prefix \o ORG) \o Slash) \o REPO) \o DotGit

\* resolveTarget has returned the target of ORG and REPO
ParsedAs(ORG, REPO) ==
    /\ target # None
    /\ target.org = ORG
    /\ target.repo = REPO

\* C20 as claimed: for all non-empty URL-safe segments ORG and REPO, the
\* parser returns {org: ORG, repo: REPO} for https://host/ORG/REPO and for
\* https://host/ORG/REPO.git
C20_HttpsFormsAnySegments ==
    pc \notin {"start", "resolve"} =>
        \A ORG, REPO \in SafeSegments :
            HttpsFormOf(ORG, REPO) => ParsedAs(ORG, REPO)

\* "." and "..", which a URL drops from its path
DotSegments == { Dot, DotDot }

\* C20, amended: the same for the segments ORG and REPO that are neither "."
\* nor "..", REPO not ending in ".git"
C20_HttpsForms ==
    pc \notin {"start", "resolve"} =>
        \A ORG, REPO \in SafeSegments \ DotSegments :
            (~EndsWith(REPO, DotGit) /\ HttpsFormOf(ORG, REPO)) =>
                ParsedAs(ORG, REPO)

\* https://host/ORG/REPO.git was parsed to ORG and REPO, on the host with
\* userinfo and port
C20_Witness ==
    /\ pc = "exists"
    /\ \E ORG, REPO \in SafeSegments \ DotSegments :
        /\ ~EndsWith(REPO, DotGit)
        /\ args.url.value = (((<< "h", "t", "t", "p", "s", ":", "/", "/", "u", "@", "k", ":", "8", "/" >> \o ORG) \o Slash) \o REPO) \o DotGit
        /\ ParsedAs(ORG, REPO)


(* ------------------------- the parser, continued ----------------------- *)

\* what parseRepoParts returned to resolveTarget
ParseResult ==
    IF target = None THEN None
    ELSE Some([org |-> target.org, repo |-> target.repo])

\* the URL is the SSH shorthand g@h:ORG/REPO.git
SshFormOf(ORG, REPO) ==
    args.url.value = (((<< "g", "@", "h", ":" >> \o ORG) \o Slash) \o REPO) \o DotGit

\* the HTTPS form of the same repository on the same host
HttpsOf(ORG, REPO) == ((<< "h", "t", "t", "p", "s", ":", "/", "/", "h", "/" >> \o ORG) \o Slash) \o REPO

\* C21 as claimed: for every ORG and REPO, parseRepoParts of the SSH
\* shorthand user@host:ORG/REPO.git returns the same pair as parseRepoParts
\* of https://host/ORG/REPO
C21_SshAsHttpsAnySegments ==
    pc \notin {"start", "resolve"} =>
        \A ORG, REPO \in SafeSegments :
            SshFormOf(ORG, REPO) =>
                ParseResult = parseRepoParts(HttpsOf(ORG, REPO))

\* C21, amended: the same for the segments ORG and REPO that are neither "."
\* nor "..", REPO not ending in ".git"; the pair is then ORG and REPO
C21_SshAsHttps ==
    pc \notin {"start", "resolve"} =>
        \A ORG, REPO \in SafeSegments \ DotSegments :
            (~EndsWith(REPO, DotGit) /\ SshFormOf(ORG, REPO)) =>
                /\ ParseResult = parseRepoParts(HttpsOf(ORG, REPO))
                /\ ParsedAs(ORG, REPO)

\* an SSH shorthand whose ORG and REPO differ was parsed to the pair of its
\* HTTPS form
C21_Witness ==
    /\ pc = "exists"
    /\ \E ORG, REPO \in SafeSegments \ DotSegments :
        /\ ORG # REPO
        /\ ~EndsWith(REPO, DotGit)
        /\ SshFormOf(ORG, REPO)
        /\ ParsedAs(ORG, REPO)
        /\ parseRepoParts(HttpsOf(ORG, REPO)) = Some([org |-> ORG, repo |-> REPO])

\* the non-empty segments of the path-like part of the URL
PathSegments ==
    The({ NonEmpty(Split(path, "/")) : path \in {extractPath(args.url.value)} })

\* the URL is one segment, bare or written as a path or after a host
SingleSegmentUrl ==
    \E seg \in SafeSegments :
        args.url.value \in { seg, Slash \o seg, seg \o Slash, (Slash \o seg) \o Slash,
                             << "h", "t", "t", "p", "s", ":", "/", "/", "h", "/" >> \o seg, << "g", "@", "h", ":" >> \o seg }

\* parseRepoParts returned None: resolveTarget failed with InvalidUrlError
NotParsed ==
    /\ target = None
    /\ pc = "done"
    /\ exit = InvalidUrlError(args.url.value)

\* C22: parseRepoParts returns None or Some and nothing else (it does not
\* throw), and it returns None for the empty string, for "/", and for every
\* input whose path-like part has one non-empty segment
C22_NoneForSingleSegment ==
    pc \notin {"start", "resolve"} =>
        /\ NotParsed \/ (target # None /\ pc = "exists" /\ exit = Running)
        /\ args.url.value \in { << >>, Slash } => NotParsed
        /\ Len(PathSegments) = 1 => NotParsed
        /\ SingleSegmentUrl => NotParsed

\* a URL whose pathname is one segment was not parsed
C22_Witness ==
    /\ args.url.value = << "h", "t", "t", "p", "s", ":", "/", "/", "h", "/", "a", ".", "g", "i", "t" >>
    /\ Len(PathSegments) = 1
    /\ NotParsed

\* C23: stripGitSuffix, applied by the parser to the last segment, removes
\* at most one trailing ".git": a segment that does not end in ".git" comes
\* back unchanged, so that a fully stripped name stays as it is; a segment
\* that ends in ".git" comes back less its last four characters, ".git.git"
\* as ".git"; and the repo of the target is that result
C23_StripsOneSuffix ==
    (pc \notin {"start", "resolve"} /\ Len(PathSegments) >= 2) =>
        \E seg \in {LastSegment} : \E stripped \in {stripGitSuffix(seg)} :
            /\ ~EndsWith(seg, DotGit) => stripped = seg
            /\ EndsWith(seg, DotGit) =>
                /\ Len(stripped) = Len(seg) - 4
                /\ stripped \o DotGit = seg
            /\ ~EndsWith(stripped, DotGit) => stripGitSuffix(stripped) = stripped
            /\ seg = DotGit \o DotGit => stripped = DotGit
            /\ IF stripped = << >> THEN NotParsed
               ELSE target # None /\ target.repo = stripped

\* the segment ".git.git" was stripped to ".git", which became the repo
C23_Witness ==
    /\ pc = "exists"
    /\ Len(PathSegments) >= 2
    /\ LastSegment = DotGit \o DotGit
    /\ target.repo = DotGit

(* ------------------------------ the target ----------------------------- *)

\* the directory the k-th git invocation works on
GitCallDir(k) ==
    IF gitCalls[k].args[1] = "clone" THEN gitCalls[k].args[5]
    ELSE gitCalls[k].cwd.value

\* C24: the target resolveTarget yields is a function of the URL and of
\* HOME: its org and repo are those parseRepoParts returns for the URL, its
\* dir is the join of <HOME>/.local/repos, org and repo, its label is
\* "<org>/<repo>"; whatever the disk holds and whatever earlier runs did, it
\* is the target those runs worked on
C24_TargetDeterministic ==
    target # None =>
        /\ target.url = args.url.value
        /\ parseRepoParts(args.url.value) =
                Some([org |-> target.org, repo |-> target.repo])
        /\ target.dir =
                PathJoin(<< PathJoin(<< home.value, << ".", "l", "o", "c", "a", "l" >>, << "r", "e", "p", "o", "s" >> >>),
                            target.org, target.repo >>)
        /\ target.dir = ((CacheRoot \o Slash) \o target.org) \o (Slash \o target.repo)
        /\ target.label = (target.org \o Slash) \o target.repo
        /\ \A k \in 1..Len(gitCalls) : GitCallDir(k) = target.dir

\* a later run resolved its target on a disk that an earlier run had changed
C24_Witness ==
    /\ target # None
    /\ pc = "exists"
    /\ Len(gitCalls) = 2
    /\ fs # fs0
    /\ fs0.root

(* ----------------------------- the discovery --------------------------- *)

\* findGitRepos has returned
Discovered == args.syncAll /\ HomeSet /\ pc \notin {"start", "discover"}

\* the places of the listing whose entry has the base name .git
GitEntryIdx == {k \in 1..Len(fs.entries) : Basename(fs.entries[k]) = DotGit}

\* the entry as an absolute path, less its trailing slash
AbsoluteEntry(entry) ==
    The({ IF abs[Len(abs)] = "/" THEN SubSeq(abs, 1, Len(abs) - 1) ELSE abs :
            abs \in {IF IsAbsolute(entry) THEN entry
                     ELSE (CacheRoot \o Slash) \o entry} })

\* the first place of the listing whose .git entry lies in dir
FirstEntryOf(dir) ==
    SetMin({k \in GitEntryIdx : AbsoluteEntry(fs.entries[k]) = (dir \o Slash) \o DotGit})

\* C25: findGitRepos returns the parent directory of every listing entry
\* whose base name is .git and nothing else, each parent once however many
\* entries lead to it, in the order of their first entries in the listing
C25_DiscoveryDeduplicated ==
    Discovered =>
        /\ \A k \in GitEntryIdx :
            \E i \in 1..Len(repos) :
                (repos[i] \o Slash) \o DotGit = AbsoluteEntry(fs.entries[k])
        /\ \A i \in 1..Len(repos) :
            \E k \in GitEntryIdx :
                (repos[i] \o Slash) \o DotGit = AbsoluteEntry(fs.entries[k])
        /\ \A i, j \in 1..Len(repos) : i # j => repos[i] # repos[j]
        /\ \A i, j \in 1..Len(repos) :
            i < j => FirstEntryOf(repos[i]) < FirstEntryOf(repos[j])

\* three entries of the listing led to one repository, found after another
C25_Witness ==
    /\ Discovered
    /\ Len(fs.entries) = 3
    /\ fs.entries[1] = << "b", "/", "2", "/", ".", "g", "i", "t" >>
    /\ Cardinality({fs.entries[2], fs.entries[3]}) = 2
    /\ Cardinality(GitEntryIdx) = 3
    /\ repos = << << "/", "h", "/", ".", "l", "o", "c", "a", "l", "/", "r", "e", "p", "o", "s", "/", "b", "/", "2" >>, << "/", "h", "/", ".", "l", "o", "c", "a", "l", "/", "r", "e", "p", "o", "s", "/", "a", "/", "1" >> >>

(* ----------------------- labels of the two modes ----------------------- *)

\* a --sync-all that runs after a single-URL sync whose clone succeeded
AfterClone ==
    /\ args.syncAll
    /\ target # None
    /\ op = "clone"
    /\ result # None
    /\ result.value.exitCode = 0

\* C26: the label of every outcome of a --sync-all is the path of the
\* repository relative to the cache root; a --sync-all that runs after a
\* single-URL sync has cloned into <cache root>/<org>/<repo> finds that
\* directory and gives it the label "<org>/<repo>" that the single-URL sync
\* printed
C26_LabelsAgree ==
    (args.syncAll /\ pc \notin {"start", "discover"}) =>
        /\ \A i \in 1..Len(repos) :
            results[i] # None =>
                /\ results[i].repoDir = repos[i]
                /\ (CacheRoot \o Slash) \o results[i].label = repos[i]
        /\ AfterClone =>
            /\ target.dir = ((CacheRoot \o Slash) \o target.org) \o (Slash \o target.repo)
            /\ out[1] = TxtCloning \o ((target.org \o Slash) \o target.repo)
            /\ \E k \in 1..Len(out) :
                out[k] = TxtOK \o ((target.org \o Slash) \o target.repo)
            /\ \E i \in 1..Len(repos) :
                /\ repos[i] = target.dir
                /\ results[i] # None =>
                    results[i].label = (target.org \o Slash) \o target.repo
                /\ pc = "done" =>
                    \E k \in 1..Len(out) :
                        /\ out[k] = (IF results[i].ok THEN TxtOK ELSE TxtFAIL)
                                        \o ((target.org \o Slash) \o target.repo)
                        /\ \E d \in 1..(k - 1) : MatchAt(out[d], TxtDone, 1)

\* a --sync-all has ended whose pull failed in the repository that the
\* single-URL sync before it had cloned from an SSH shorthand
C26_Witness ==
    /\ AfterClone
    /\ pc = "done"
    /\ gitCalls[1].args[4] = << "g", "@", "h", ":", "b", "/", "2", ".", "g", "i", "t" >>
    /\ \E k \in 1..Len(out) : out[k] = << "O", "K", " ", "b", "/", "2" >>
    /\ \E k \in 1..Len(out) : out[k] = << "F", "A", "I", "L", " ", "b", "/", "2" >>

(* ----------------------------- formatOutput ---------------------------- *)

\* the text is empty or holds whitespace only
IsBlank(s) == \A i \in 1..Len(s) : s[i] \in WhiteSpace

\* the text neither begins nor ends with whitespace
IsTrimmed(s) ==
    Len(s) > 0 => (s[1] \notin WhiteSpace /\ s[Len(s)] \notin WhiteSpace)

\* output is what the claim says formatOutput returns for the two streams
FormatsTo(stdout, stderr, output) ==
    /\ IsTrimmed(output)
    /\ (output = << >>) = (IsBlank(stdout) /\ IsBlank(stderr))
    /\ (IsBlank(stdout) /\ ~IsBlank(stderr)) => output = Trim(stderr)
    /\ (~IsBlank(stdout) /\ IsBlank(stderr)) => output = Trim(stdout)
    /\ (~IsBlank(stdout) /\ ~IsBlank(stderr)) =>
        output = (Trim(stdout) \o << "\n" >>) \o Trim(stderr)

\* the combined output a single-URL sync wrote, empty when it wrote none
SingleWritten ==
    IF result.value.exitCode = 0
    THEN (IF Len(out) = 3 THEN out[2] ELSE << >>)
    ELSE (IF Len(err) = 1 THEN err[1] ELSE << >>)

\* C27: formatOutput trims the two streams and returns nothing when both
\* are then empty, the one that is not empty, or stdout, a newline and
\* stderr; the result is empty exactly when both streams are blank, and the
\* exit code has no part in it. This is the text a single-URL sync writes
\* and the output of every outcome of a --sync-all
C27_FormatOutput ==
    /\ SingleHandled =>
        FormatsTo(result.value.stdout, result.value.stderr, SingleWritten)
    /\ args.syncAll =>
        \A i \in 1..Len(results) :
            results[i] # None =>
                IF ended[i].kind = "exit"
                THEN FormatsTo(ended[i].output.stdout, ended[i].output.stderr,
                               results[i].output)
                ELSE FormatsTo(<< >>, ended[i].message, results[i].output)

\* a clone that exited 0 with text on both streams had them written as
\* one text, stdout first, trimmed
C27_Witness ==
    /\ SingleHandled
    /\ result.value.stdout = << " ", "o", " " >>
    /\ result.value.stderr = << "w" >>
    /\ out[2] = << "o", "\n", "w" >>

(* ------------------------------ two runs ------------------------------- *)

\* the other run is inside a git clone for the directory dir
PeerCloning(dir) ==
    /\ peer.pc = "git"
    /\ peer.op = "clone"
    /\ peer.target.dir = dir

\* C28: nothing in this program keeps two single-URL runs for the same
\* repository apart. While the other run is inside its git clone and the
\* target directory is still absent, this run can observe it as absent, can
\* go on to its own clone and can invoke git clone for the same destination
C28_NoMutualExclusion ==
    (target # None /\ PeerCloning(target.dir) /\ ~FsExists(fs, target.dir)) =>
        /\ pc = "exists" => ENABLED (CheckExists /\ pc' = "logClone")
        /\ pc = "logClone" => ENABLED LogCloning
        /\ pc = "mkdir" => ENABLED MakeParentDir
        /\ pc = "clone" =>
            ENABLED (StartClone /\ gitCalls' = Append(gitCalls, cloneRepo(peer.target)))

\* both runs observed the target directory as absent and both are inside a
\* git clone for the same destination
C28_Witness ==
    /\ pc = "git"
    /\ op = "clone"
    /\ PeerCloning(target.dir)
    /\ ~FsExists(fs, target.dir)
    /\ Len(gitCalls) = 2
    /\ gitCalls[1] = gitCalls[2]
    /\ gitCalls[1].args[1] = "clone"
    /\ gitCalls[1].args[5] = target.dir

(* ----------------------- the phases of a --sync-all -------------------- *)

\* Discovering is 1, Syncing 2, Reporting 3; 0 before and 4 after
PhaseOf(p) ==
    CASE p = "start" -> 0
      [] p = "discover" -> 1
      [] p = "syncing" -> 2
      [] p \in {"summary", "failures"} -> 3
      [] OTHER -> 4

\* a line of the report: "Done. ...", "OK <label>", "FAIL <label>", "Failures:"
IsReportLine(line) ==
    \/ MatchAt(line, TxtDone, 1)
    \/ MatchAt(line, TxtOK, 1)
    \/ MatchAt(line, TxtFAIL, 1)
    \/ line = TxtFailures

\* every discovered repository has had its pull, and the pull has ended
AllPullsEnded ==
    /\ running = {}
    /\ nextIdx = Len(repos) + 1
    /\ \A i \in 1..Len(repos) : results[i] # None /\ ended[i] # None

\* C29 (states): before the end of the discovery no pull has started; once
\* a pull has started the discovered repositories are known and distinct;
\* while pulls are started and awaited nothing but the "Syncing" line is
\* printed; and a line of the report is printed only after every pull ended
C29_PhaseContents ==
    args.syncAll =>
        /\ PhaseOf(pc) <= 1 =>
            (gitCalls = << >> /\ running = {} /\ nextIdx = 1 /\ out = << >>)
        /\ gitCalls # << >> =>
            /\ PhaseOf(pc) >= 2
            /\ Len(gitCalls) <= Len(repos)
            /\ \A i, j \in 1..Len(repos) : i # j => repos[i] # repos[j]
        /\ pc = "syncing" =>
            (Len(out) = 1 /\ MatchAt(out[1], TxtSyncing, 1) /\ err = << >>)
        /\ (\E k \in 1..Len(out) : IsReportLine(out[k])) =>
            (PhaseOf(pc) >= 3 /\ AllPullsEnded)
        /\ PhaseOf(pc) = 3 => AllPullsEnded

\* C29 (steps): the run never goes back to an earlier phase, a pull starts
\* and ends only in Syncing, and what was discovered is not changed after
C29_PhaseSteps ==
    args.syncAll =>
        /\ PhaseOf(pc') >= PhaseOf(pc)
        /\ (gitCalls' # gitCalls \/ running' # running) =>
            (pc = "syncing" /\ pc' = "syncing" /\ repos' = repos)
        /\ PhaseOf(pc) >= 2 => repos' = repos
        /\ PhaseOf(pc) >= 3 => (results' = results /\ gitCalls' = gitCalls)

\* C29: a --sync-all goes through Discovering, Syncing and Reporting in that
\* order and never backwards: no pull starts before the discovery and the
\* de-duplication are complete, and no "Done.", "OK <label>", "FAIL <label>"
\* or "Failures:" line is printed before the pull of every discovered
\* repository has ended
C29_PhasesInOrder == [](C29_PhaseContents) /\ [][C29_PhaseSteps]_vars

\* a pull has failed and another is still in flight, and nothing of the
\* report is printed
C29_Witness ==
    /\ args.syncAll
    /\ pc = "syncing"
    /\ running # {}
    /\ \E i \in 1..Len(repos) : results[i] # None /\ ~results[i].ok
    /\ Len(out) = 1

(* ------------------- a pull that fails instead of returning ------------ *)

\* the number of repositories whose pull did not end with exit code 0
NotOkCount == Cardinality({j \in 1..Len(repos) : ~EndedOk(j)})

\* the entry of repository i in the Failures section, for the message of
\* the error its pull failed with
FailureEntry(i, message) ==
    IF IsBlank(message) THEN LabelOf(i) \o TxtNoOutput
    ELSE (LabelOf(i) \o << "\n" >>) \o Trim(message)

\* C30: the outcome of a pull of a --sync-all that failed at the
\* orchestration layer is that of a result with exit code 1, no stdout and
\* the message of the error as stderr: it is not ok and its output is the
\* trimmed message; the run goes on, counts it as failed in the "Done." line,
\* prints "FAIL <label>" for it and never "OK <label>", and its entry in
\* the Failures section shows the trimmed message, or "(no output)" when the
\* message is blank
C30_SynthesizedFailure ==
    args.syncAll =>
        \A i \in 1..Len(repos) :
            EndedInError(i) =>
                /\ results[i] # None
                /\ results[i].exitCode = 1
                /\ ~results[i].ok
                /\ results[i].output = Trim(ended[i].message)
                /\ results[i].label = LabelOf(i)
                /\ exit \in {Running, Success}
                /\ \A k \in 1..Len(out) : out[k] # TxtOK \o LabelOf(i)
                /\ pc \in {"summary", "failures", "done"} =>
                    /\ NotOkCount >= 1
                    /\ out[2] = (((TxtDone \o NumStr(Len(repos) - NotOkCount))
                                    \o TxtOkComma) \o NumStr(NotOkCount)) \o TxtFailed
                /\ pc \in {"failures", "done"} =>
                    \E k \in 1..Len(out) : out[k] = TxtFAIL \o LabelOf(i)
                /\ pc = "done" =>
                    \E k, f \in 1..Len(out) :
                        /\ f < k
                        /\ out[f] = TxtFailures
                        /\ out[k] = FailureEntry(i, ended[i].message)

\* a run has ended in which one pull failed with a message that needs
\* trimming and another with a blank message
C30_Witness ==
    /\ args.syncAll
    /\ pc = "done"
    /\ \E i, j \in 1..Len(repos) :
        /\ EndedInError(i)
        /\ EndedInError(j)
        /\ ended[i].message = << " ", "m", "\n" >>
        /\ ended[j].message = << " " >>
        /\ \E k \in 1..Len(out) : out[k] = (LabelOf(i) \o << "\n" >>) \o << "m" >>
        /\ \E k \in 1..Len(out) : out[k] = LabelOf(j) \o TxtNoOutput


(* -------------------- the order of a single-URL sync ------------------- *)

\* the first line of a single-URL sync that works on its target
StartLine ==
    (IF SingleTargetExisted THEN TxtPulling ELSE TxtCloning) \o SingleLabel

\* C31 (states): in a single-URL sync nothing is printed before the
\* "Cloning" or "Pulling" line, which is there when the parent directory is
\* made and when git is invoked; nothing more is printed while git runs;
\* the output of git comes after the invocation has returned and the "OK"
\* line after the output. A target directory without .git has no line at all
C31_SingleOrderStates ==
    (~args.syncAll /\ target # None) =>
        /\ (fs # fs0 \/ gitCalls # << >> \/ pc \in {"mkdir", "clone", "pull", "git"}) =>
            (Len(out) >= 1 /\ out[1] = StartLine)
        /\ result = None => (Len(out) <= 1 /\ err = << >>)
        /\ pc \in {"exists", "isGit", "logClone", "logPull"} => out = << >>
        /\ pc = "handle" => (out = << StartLine >> /\ err = << >>)
        /\ (result # None /\ pc = "done") =>
            /\ out[1] = StartLine
            /\ \A k \in 2..Len(out) :
                out[k] = SingleOutput => k = 2
            /\ (exit = Success) =>
                (out[Len(out)] = TxtOK \o SingleLabel /\ Len(out) \in {2, 3})
        /\ (SingleTargetExisted /\ ~SingleTargetWasGit) => (out = << >> /\ err = << >>)

\* C31 (steps): the step that prints the first line neither makes a
\* directory nor invokes git; the steps that make the directory and invoke
\* git print nothing; the step that prints the output of git and the "OK"
\* line comes after the invocation has returned
C31_SingleOrderSteps ==
    (~args.syncAll /\ target # None) =>
        /\ (Len(out) = 0 /\ Len(out') > 0) =>
            (out' = << StartLine >> /\ fs' = fs /\ fs = fs0 /\ gitCalls' = gitCalls
                /\ gitCalls = << >>)
        /\ (fs' # fs \/ gitCalls' # gitCalls) => (out' = out /\ err' = err)
        /\ (Len(out) >= 1 /\ (out' # out \/ err' # err)) =>
            (result # None /\ pc = "handle" /\ gitCalls' = gitCalls /\ fs' = fs)

\* C31: in a single-URL sync the "Cloning <label>" or "Pulling <label>" line
\* is printed before the git invocation starts and, for a clone, before the
\* parent directory is made; the output of git is printed only after the
\* invocation has completed, and "OK <label>" after that output; a target
\* that exists without .git has no "Pulling" line
C31_SingleOrder == [](C31_SingleOrderStates) /\ [][C31_SingleOrderSteps]_vars

\* a clone on a disk without cache root has ended with its three lines
C31_Witness ==
    /\ ~args.syncAll
    /\ target # None
    /\ ~fs0.root
    /\ pc = "done"
    /\ Len(out) = 3
    /\ out[1] = TxtCloning \o SingleLabel
    /\ out[2] = SingleOutput
    /\ out[3] = TxtOK \o SingleLabel

(* ------------------- the parser: segments and the path ----------------- *)

\* the text less the slashes it ends with
NoTrailingSlash(p) == The({ Slice(p, 1, end) : end \in {LastNonSlash(p, 1)} })

\* the text ends with the segment seg, which begins the text or follows a
\* slash
EndsWithSegment(p, seg) ==
    /\ Len(seg) > 0
    /\ ~Includes(seg, Slash)
    /\ EndsWith(p, seg)
    /\ Len(p) > Len(seg) => p[Len(p) - Len(seg)] = "/"

\* read from its end, the path is: slashes, last, slashes, org, and before
\* org a slash or nothing
PathEndsWith(p, org, last) ==
    \E q \in {NoTrailingSlash(p)} :
        /\ EndsWithSegment(q, last)
        /\ Len(q) > Len(last)
        /\ EndsWithSegment(NoTrailingSlash(Slice(q, 1, Len(q) - Len(last))), org)

\* C32: when the path-like part has two or more non-empty segments,
\* parseRepoParts takes the repo from the last of them, less one trailing
\* ".git", and the org from the one before, whatever comes before these two
\* and however many slashes lie before, between and after them; it returns
\* the two names unless the repo so taken is empty
C32_LastTwoSegments ==
    (pc \notin {"start", "resolve"} /\ Len(PathSegments) >= 2) =>
        \E segs \in {PathSegments} :
            \E org \in {segs[Len(segs) - 1]}, last \in {segs[Len(segs)]} :
                /\ PathEndsWith(extractPath(args.url.value), org, last)
                /\ IF last = DotGit THEN NotParsed
                   ELSE ParsedAs(org, IF EndsWith(last, DotGit)
                                      THEN SubSeq(last, 1, Len(last) - 4)
                                      ELSE last)

\* of three segments the first was ignored, on a URL and on a path with
\* doubled and trailing slashes
C32_Witness ==
    /\ pc = "exists"
    /\ args.url.value \in { << "h", "t", "t", "p", "s", ":", "/", "/", "u", "@", "k", ":", "8", "/", "a", "/", ".", "g", "i", "t", "/", "a" >>, << "a", "/", "/", ".", "g", "i", "t", "/", "a", "/" >> }
    /\ ParsedAs(DotGit, << "a" >>)

\* the place of the first colon of the text when no slash comes before it,
\* and 0 otherwise
ShorthandColon(raw) ==
    IF \E c \in 1..Len(raw) :
        raw[c] = ":" /\ \A j \in 1..(c - 1) : raw[j] \notin {":", "/"}
    THEN SetMin({c \in 1..Len(raw) : raw[c] = ":"})
    ELSE 0

\* the path-like part of the text by the three cases of the claim
PathByCases(raw) ==
    IF Includes(raw, << ":", "/", "/" >>)
    THEN (IF UrlPathname(raw) = None THEN raw ELSE UrlPathname(raw).value)
    ELSE IF ShorthandColon(raw) > 0
    THEN Slice(raw, ShorthandColon(raw) + 1, Len(raw))
    ELSE raw

\* the text has no segment "." or ".."
NoDotSegment(rest) ==
    \A k \in 1..Len(Split(rest, "/")) : Split(rest, "/")[k] \notin DotSegments

\* C33: extractPath returns in every case, and what it returns is: for a
\* text with "://" the path component of the URL, or the text itself when
\* it is no URL; else, for a text with a colon and no slash before its first
\* colon, the text after that colon; else the text itself. The parser goes
\* on from that path
C33_ExtractPathCases ==
    pc \notin {"start", "resolve"} =>
        \E raw \in {args.url.value} : \E path \in {extractPath(raw)} :
            /\ path = PathByCases(raw)
            /\ NotParsed \/ (target # None /\ pc = "exists" /\ exit = Running)
            /\ ParseResult = partsOfSegments(NonEmpty(Split(path, "/")))
            /\ \A rest \in {Slice(raw, 11, Len(raw))} :
                (MatchAt(raw, << "h", "t", "t", "p", "s", ":", "/", "/", "h", "/" >>, 1) /\ NoDotSegment(rest)
                    /\ ~Includes(rest, << "h", "t", "t", "p", "s", ":", "/", "/" >>)) =>
                    path = Slash \o rest
            /\ (MatchAt(raw, << "g", "@", "h", ":" >>, 1) /\ ~Includes(raw, << ":", "/", "/" >>)) =>
                path = Slice(raw, 5, Len(raw))
            /\ ~Includes(raw, << ":" >>) => path = raw

\* a text with "://" that is no URL was taken as it is
C33_Witness ==
    /\ pc = "exists"
    /\ args.url.value = << ".", "h", "t", "t", "p", "s", ":", "/", "/", "h", "/", "a" >>
    /\ UrlPathname(args.url.value) = None
    /\ extractPath(args.url.value) = args.url.value
    /\ ParsedAs(<< "h" >>, << "a" >>)

(* ----------------------- the place of the target ----------------------- *)

\* the directory lies in the cache root, two levels below it
TwoLevelsBelowRoot(dir) ==
    /\ MatchAt(dir, CacheRoot \o Slash, 1)
    /\ \E below \in {Split(Slice(dir, Len(CacheRoot) + 2, Len(dir)), "/")} :
        /\ Len(below) = 2
        /\ \A k \in 1..2 : below[k] # << >> /\ below[k] \notin DotSegments

\* C34: the directory of every target resolveTarget yields lies inside the
\* cache root, exactly two levels below it, whatever URL was parsed, also
\* one whose org or repo is "." or ".."
C34_TargetInsideCacheRoot ==
    Parsed => TwoLevelsBelowRoot(target.dir)

\* the path ../a was resolved to a directory beside the cache root
C34_Escapes ==
    /\ Parsed
    /\ args.url.value = << ".", ".", "/", "a" >>
    /\ target.dir = << "/", "h", "/", ".", "l", "o", "c", "a", "l", "/", "a" >>

(* --------------------------- URLs of one target ------------------------ *)

\* the URLs git clone was invoked with
ClonedUrls ==
    {gitCalls[k].args[4] : k \in {j \in 1..Len(gitCalls) : gitCalls[j].args[1] = "clone"}}

\* C35 (states): the URLs of a series that differ in the host or in the
\* leading segments and agree in the last two segments resolve to one
\* target directory, that of every git invocation so far; a sync that begins
\* after a clone has succeeded does not go the way of a clone
C35_OneTargetStates ==
    target # None =>
        /\ \A k \in 1..Len(gitCalls) : GitCallDir(k) = target.dir
        /\ target.dir = (CacheRoot \o Slash) \o target.label
        /\ (ClonedDirs # {} /\ result = None) =>
            pc \notin {"logClone", "mkdir", "clone"}

\* C35 (steps): once a clone has succeeded, the only git invocation a step
\* starts is a pull in the cloned directory, whatever URL the sync was given
C35_OneTargetSteps ==
    ClonedDirs # {} =>
        \/ gitCalls' = gitCalls
        \/ /\ Len(gitCalls') = Len(gitCalls) + 1
           /\ gitCalls'[Len(gitCalls')].args = << "pull" >>
           /\ gitCalls'[Len(gitCalls')].cwd.value \in ClonedDirs
           /\ ClonedUrls' = ClonedUrls

\* C35: the host of a URL has no part in the target: URLs with other hosts
\* or other leading segments and the same last two segments resolve to the
\* same directory, so that after a successful sync of the first URL a sync
\* of the second pulls the clone of the first and never clones the second
C35_HostPlaysNoPart == [](C35_OneTargetStates) /\ [][C35_OneTargetSteps]_vars

\* the repository cloned from one host was pulled by the sync of an SSH
\* shorthand on another host with one more leading segment
C35_Witness ==
    /\ pc = "done"
    /\ Len(gitCalls) = 2
    /\ gitCalls[1].args[1] = "clone"
    /\ gitCalls[1].args[4] = << "h", "t", "t", "p", "s", ":", "/", "/", "h", "/", "c", "/", "9" >>
    /\ args.url.value = << "g", "@", "k", ":", "x", "/", "c", "/", "9", ".", "g", "i", "t" >>
    /\ gitCalls[2] = pullRepo(gitCalls[1].args[5])
    /\ exit = Success

(* ------------------------ a URL with --sync-all ------------------------ *)

\* C36: given a URL together with --sync-all, the command runs the bulk
\* sync and nothing else: the URL is not parsed and no target is resolved,
\* git is invoked only for the pulls of the discovered repositories, and the
\* command ends as the bulk sync ends, with no error about the two inputs
\* or about the URL
C36_SyncAllWins ==
    (args.syncAll /\ args.url # None) =>
        /\ target = None
        /\ op = ""
        /\ result = None
        /\ pc \in {"start", "discover", "syncing", "summary", "failures", "done"}
        /\ fs = fs0
        /\ \A k \in 1..Len(gitCalls) : gitCalls[k] = pullRepo(repos[k])
        /\ exit \in {Running, Success, HomeNotSetError}
        /\ exit = HomeNotSetError => ~HomeSet
        /\ err = << >>
        /\ (pc = "done" /\ HomeSet) =>
            /\ exit = Success
            /\ repos = findGitRepos(fs0, CacheRoot)
            /\ Len(gitCalls) = Len(repos)

\* a URL that cannot be parsed was given with --sync-all, and the bulk sync
\* pulled the repositories of the disk and ended with success
C36_Witness ==
    /\ args.syncAll
    /\ args.url = Some(<< "x" >>)
    /\ pc = "done"
    /\ exit = Success
    /\ Len(gitCalls) = 2

(* ---------------------- what a --sync-all touches ---------------------- *)

\* C37 (states): a --sync-all has invoked git only as "pull", once in each
\* discovered repository in turn, and the disk below the cache root is as
\* the run found it: no directory made, no repository added or removed
C37_PullOnlyStates ==
    args.syncAll =>
        /\ fs = fs0
        /\ Len(gitCalls) <= Len(repos)
        /\ \A k \in 1..Len(gitCalls) :
            /\ gitCalls[k].args = << "pull" >>
            /\ gitCalls[k].cwd = Some(repos[k])
        /\ \A i \in 1..Len(repos) :
            InSeq(LabelOf(i) \o (Slash \o DotGit), fs0.entries)
        /\ (pc = "done" /\ HomeSet) => repos = findGitRepos(fs, CacheRoot)

\* C37 (steps): no step of a --sync-all changes the disk, whatever a pull
\* returned or failed with
C37_PullOnlySteps == args.syncAll => fs' = fs

\* C37: a --sync-all only ever invokes pull: it never invokes clone and
\* never makes a directory, and the repository directories under the cache
\* root are those it found, whatever the results of the pulls
C37_PullOnly == [](C37_PullOnlyStates) /\ [][C37_PullOnlySteps]_vars

\* a --sync-all has ended after pulls that succeeded, failed and could not
\* be started, on the disk as it was
C37_Witness ==
    /\ args.syncAll
    /\ pc = "done"
    /\ fs = fs0
    /\ \E i, j, k \in 1..Len(repos) :
        /\ EndedOk(i)
        /\ EndedInError(j)
        /\ ended[k].kind = "exit"
        /\ ended[k].output.exitCode # 0

(* --------------------------- a pull that hangs ------------------------- *)

\* C38: a --sync-all in which the pull of some repository never returns
\* never reaches Reporting: it stays in Syncing without end of the command,
\* the hung repository has no outcome, and no "Done.", "OK" or "FAIL" line
\* is printed, not even for the repositories whose pulls have ended
C38_HungPullBlocksReport ==
    (args.syncAll /\ hangs # {}) =>
        /\ pc \in {"start", "discover", "syncing"}
        /\ exit = Running
        /\ \A k \in 1..Len(out) : ~IsReportLine(out[k])
        /\ \A i \in hangs : i <= Len(results) => results[i] = None
        /\ pc = "syncing" => ~forEachDone

\* every pull but the one that hangs has ended, some of them with success,
\* and only the "Syncing" line is printed
C38_Witness ==
    /\ args.syncAll
    /\ pc = "syncing"
    /\ Cardinality(hangs) = 1
    /\ running = hangs
    /\ nextIdx = Len(repos) + 1
    /\ Len(repos) > 4
    /\ \E i \in 1..Len(repos) : EndedOk(i)
    /\ Len(out) = 1

(* ------------------------ when the parser fails ------------------------ *)

\* the non-empty segments of the path-like part, by the cases of the claim
SegmentsByCases ==
    The({ NonEmpty(Split(path, "/")) : path \in {PathByCases(args.url.value)} })

\* the URL has "://" and is no URL
UrlParsingFails ==
    /\ Includes(args.url.value, << ":", "/", "/" >>)
    /\ UrlPathname(args.url.value) = None

\* C39: parseRepoParts returns None exactly when the path-like part has
\* fewer than two non-empty segments or its last segment is ".git", and
\* Some in every other case; a text with "://" that is no URL is split as
\* it is, so that its scheme text can be the org
C39_NoneExactlyWhen ==
    pc \notin {"start", "resolve"} =>
        \E segs \in {SegmentsByCases} :
            /\ NotParsed = (Len(segs) < 2 \/ segs[Len(segs)] = DotGit)
            /\ ~NotParsed => (target # None /\ pc = "exists")
            /\ UrlParsingFails =>
                /\ segs = NonEmpty(Split(args.url.value, "/"))
                /\ ~NotParsed => target.org = segs[Len(segs) - 1]

\* a text with "://" that is no URL was parsed, and its scheme text is the
\* org
C39_Witness ==
    /\ pc = "exists"
    /\ UrlParsingFails
    /\ args.url.value = << ".", "h", "t", "t", "p", "s", ":", "/", "/", "h", "/" >>
    /\ ParsedAs(<< ".", "h", "t", "t", "p", "s", ":" >>, << "h" >>)

====
